---- MODULE Spec2Model ----
(***************************************************************************)
(* A model of the generic commands of sabledb (DEL, EXISTS, TTL, EXPIRE)   *)
(* over the typed key space, together with the string, list and hash       *)
(* commands the generic commands are exercised with.                       *)
(*                                                                         *)
(* The raw store is a map from raw keys to values.  A raw key is the       *)
(* record [tag, db, uk, sub]: the prefix tag ("P" primary, "N" list node,  *)
(* "F" hash field), the database id, the user key and the optional sub key.*)
(* Time is counted in units of 1/UnitsPerSec seconds.                      *)
(***************************************************************************)
EXTENDS Integers, Sequences, FiniteSets, TLC

VARIABLES
    store,  \* the raw key-value store
    now,    \* the clock, in time units
    db,     \* the database each connection has selected
    last,   \* the request being answered and its response buffer
    armed,  \* history: the latest EXPIRE that replied 1, until its key is written
    role_primary,     \* ServerState: the role flag
    blocked_clients,  \* ServerState: for each key the queue of senders of blocked clients
    rx,               \* the receiving side of the channel of each blocking client
    woken,            \* history: the latest call of wakeup_clients
    run,              \* the position of each worker in the handler it runs
    held,             \* LockManager: the key locks that are held
    replicator_context,  \* ServerState: whether the server has a replicator
    repl_file,           \* the replication configuration file
    replicator_rx,       \* the messages sent to the replicator and not yet taken
    admin,               \* the position of the role change that is being made
    pending,             \* the role change of a second worker, while the first runs
    worker_tx_channels,  \* ServerState: the inbox of each registered worker
    clients,             \* the client table of each worker
    kill,                \* history: the latest call of terminate_client
    kv,       \* StorageRocksDb of the primary: the key-value pairs
    wal,      \* StorageRocksDb of the primary: the write batches in commit order
    replica,  \* StorageRocksDb of a replica: the key-value pairs
    cursor,   \* the sequence number the replica polls from
    updates,  \* the latest StorageUpdates returned by storage_updates_since
    polled,   \* history: the sequence numbers of the commits each poll returned
    io        \* the latest put, get or delete of StorageRocksDb and its result

\* the role changes, the workers and the replicated storage
adminVars == <<replicator_context, repl_file, replicator_rx, admin, pending>>
workerVars == <<worker_tx_channels, clients, kill>>
storageVars == <<kv, wal, replica, cursor, updates, polled, io>>
extVars == <<adminVars, workerVars, storageVars>>

vars == <<store, now, db, last, armed, role_primary, blocked_clients, rx, woken, run, held,
          extVars>>

\* the state of the server outside the key space and the pipeline of requests
serverVars == <<role_primary, blocked_clients, rx, woken, run, held, extVars>>

(***************************************************************************)
(* Bounds of the model.                                                    *)
(***************************************************************************)
MaxTime == 4
MaxSeconds == 2
MaxListLen == 2
MaxArgs == 3
MaxChannels == 2
MaxWake == 2
MaxMessages == 2
MaxInbox == 1
MaxCommits == 2
MaxMemory == 3
MaxCount == 2

\* Every token of a request is a byte string: a sequence of characters.
KeyA == <<"a">>
KeyB == <<"b">>
ValV == <<"v">>
ValW == <<"w">>
Keys == {KeyA, KeyB}
Vals == {ValV, ValW}
FieldF == <<"f">>
FieldG == <<"g">>
Fields == {FieldF, FieldG}
Conns == {"c1", "c2"}
Dbs == {0, 1}

DigitChars == <<"0", "1", "2", "3", "4", "5", "6", "7", "8", "9">>
DigitTok(n) == <<DigitChars[n + 1]>>
\* seconds arguments: the numbers 0..MaxSeconds, a signed and padded
\* spelling of 1, and two tokens that are no unsigned integer
SecTokens ==
    {DigitTok(n) : n \in 0 .. MaxSeconds}
        \cup {<<"+", "0", "1">>, <<"-", "1">>, <<"1", "x">>}
\* option arguments of EXPIRE in several spellings, and an unknown one
OptTokens ==
    {<<"N", "X">>, <<"x", "x">>, <<"G", "t">>, <<"l", "T">>, <<"K", "O">>}
TokEX == <<"E", "X">>

(***************************************************************************)
(* BytesMutUtils: parsing and case conversion of tokens.                   *)
(***************************************************************************)
IsDigit(c) == \E i \in 1 .. 10 : DigitChars[i] = c
DigitVal(c) == (CHOOSE i \in 1 .. 10 : DigitChars[i] = c) - 1

RECURSIVE DigitsValue(_, _)
DigitsValue(tok, acc) ==
    IF tok = <<>> THEN acc
    ELSE DigitsValue(Tail(tok), acc * 10 + DigitVal(Head(tok)))

ParseFail == -1
\* BytesMutUtils::parse::<u64>: an optional "+" and then one or more digits
ParseU64(tok) ==
    LET digits == IF tok # <<>> /\ Head(tok) = "+" THEN Tail(tok) ELSE tok
    IN  IF digits # <<>> /\ \A i \in 1 .. Len(digits) : IsDigit(digits[i])
        THEN DigitsValue(digits, 0)
        ELSE ParseFail

UpperChars == <<"N", "X", "G", "T", "L", "K", "O", "E">>
LowerChars == <<"n", "x", "g", "t", "l", "k", "o", "e">>
ToLowerChar(c) ==
    IF \E i \in 1 .. Len(UpperChars) : UpperChars[i] = c
    THEN LowerChars[CHOOSE i \in 1 .. Len(UpperChars) : UpperChars[i] = c]
    ELSE c
ToLower(tok) == [i \in 1 .. Len(tok) |-> ToLowerChar(tok[i])]

(***************************************************************************)
(* Time and expiration (metadata::Expiration, TimeUtils).                  *)
(***************************************************************************)
UnitsPerSec == 2
NoExp == -1
TtlInfinite == 1000000

HasTtl(exp) == exp # NoExp

\* seconds remaining, rounded up to whole seconds; a value without
\* expiration has an unbounded time to live
TtlInSeconds(exp, t) ==
    IF ~HasTtl(exp) THEN TtlInfinite
    ELSE IF exp <= t THEN 0
    ELSE (exp - t + UnitsPerSec - 1) \div UnitsPerSec

SetTtlSeconds(seconds, t) == t + seconds * UnitsPerSec

IsExpired(exp, t) == HasTtl(exp) /\ exp <= t

(***************************************************************************)
(* Raw keys (PrimaryKeyMetadata and the list / hash item keys).            *)
(***************************************************************************)
NoSub == <<>>

PrimaryKey(d, k) == [tag |-> "P", db |-> d, uk |-> k, sub |-> NoSub]
ListNodeKey(d, k, id) == [tag |-> "N", db |-> d, uk |-> k, sub |-> <<ToString(id)>>]
HashFieldKey(d, k, f) == [tag |-> "F", db |-> d, uk |-> k, sub |-> f]

None == [type |-> "none"]

Drop(st, ks) == [r \in (DOMAIN st) \ ks |-> st[r]]
Put(st, r, v) == [x \in (DOMAIN st) \cup {r} |-> IF x = r THEN v ELSE st[x]]

SubKeysOf(st, d, k) ==
    {r \in DOMAIN st : r.db = d /\ r.uk = k /\ r.tag # "P"}

(***************************************************************************)
(* GenericDb: access to the primary entry of a user key.  An entry whose   *)
(* expiration is past is treated as absent by every reader.                *)
(***************************************************************************)
GenericDbGet(st, t, d, k) ==
    IF PrimaryKey(d, k) \in DOMAIN st /\ ~IsExpired(st[PrimaryKey(d, k)].exp, t)
    THEN st[PrimaryKey(d, k)]
    ELSE None

GenericDbContains(st, t, d, k) == GenericDbGet(st, t, d, k).type # "none"

GenericDbDelete(st, d, k) == Drop(st, {PrimaryKey(d, k)})

\* Some(expiration) of an existing key, None of an absent one
GenericDbGetExpiration(st, t, d, k) ==
    IF GenericDbContains(st, t, d, k)
    THEN [some |-> TRUE, exp |-> GenericDbGet(st, t, d, k).exp]
    ELSE [some |-> FALSE]

GenericDbPutExpiration(st, d, k, exp) ==
    Put(st, PrimaryKey(d, k), [st[PrimaryKey(d, k)] EXCEPT !.exp = exp])

\* the whole value of a user key: primary entry and substructure
Purge(st, d, k) == Drop(st, {PrimaryKey(d, k)} \cup SubKeysOf(st, d, k))

\* a writer that finds an expired primary entry destroys the value first
PurgeIfExpired(st, t, d, k) ==
    IF PrimaryKey(d, k) \in DOMAIN st /\ IsExpired(st[PrimaryKey(d, k)].exp, t)
    THEN Purge(st, d, k)
    ELSE st

(***************************************************************************)
(* Replies (RespBuilderV2).  Every builder call used by the handlers       *)
(* replaces the content of the response buffer.                            *)
(***************************************************************************)
RInt(n) == [t |-> "int", n |-> n]
RBulk(b) == [t |-> "bulk", b |-> b]
RNil == [t |-> "nil"]
ROk == [t |-> "ok"]
RErr(e) == [t |-> "err", e |-> e]
RErrArg(e, tok) == [t |-> "err", e |-> e, arg |-> tok]

ErrWrongType == "WRONGTYPE Operation against a key holding the wrong kind of value"
ErrNotInt == "ERR value is not an integer or out of range"
ErrUnsupportedOption == "ERR Unsupported option"
ErrReadOnly == "READONLY You can't write against a read only replica"
ErrArgCount == "ERR wrong number of arguments"

(***************************************************************************)
(* Datatype layers the generic commands are exercised with: StringsDb,     *)
(* List and HashDb.                                                        *)
(***************************************************************************)
StringValue(exp, v) == [type |-> "string", exp |-> exp, payload |-> v]

\* SET replaces whatever value the key holds
StringsDbPut(st, d, k, exp, v) ==
    Put(Purge(st, d, k), PrimaryKey(d, k), StringValue(exp, v))

\* push one element at the head of the list; a node id is allocated from
\* the list's own count (only pushes and whole-list removal occur)
ListPushOne(st, d, k, e) ==
    IF PrimaryKey(d, k) \notin DOMAIN st
    THEN Put(Put(st, ListNodeKey(d, k, 1), [prev |-> 0, next |-> 0, elem |-> e]),
             PrimaryKey(d, k),
             [type |-> "list", exp |-> NoExp, head |-> 1, tail |-> 1, len |-> 1])
    ELSE LET p == st[PrimaryKey(d, k)]
             id == p.len + 1
             withNode == Put(st, ListNodeKey(d, k, id),
                             [prev |-> 0, next |-> p.head, elem |-> e])
             linked == Put(withNode, ListNodeKey(d, k, p.head),
                           [st[ListNodeKey(d, k, p.head)] EXCEPT !.prev = id])
         IN  Put(linked, PrimaryKey(d, k), [p EXCEPT !.head = id, !.len = p.len + 1])

RECURSIVE ListPush(_, _, _, _)
ListPush(st, d, k, elems) ==
    IF elems = <<>> THEN st
    ELSE ListPush(ListPushOne(st, d, k, Head(elems)), d, k, Tail(elems))

\* the raw keys of the nodes reachable from node id along the next links
RECURSIVE ListChain(_, _, _, _)
ListChain(st, d, k, id) ==
    IF id = 0 \/ ListNodeKey(d, k, id) \notin DOMAIN st THEN {}
    ELSE {ListNodeKey(d, k, id)} \cup ListChain(st, d, k, st[ListNodeKey(d, k, id)].next)

\* List::remove(key, None, i32::MAX): remove every item and then the list
ListRemove(st, d, k) ==
    Drop(st, ListChain(st, d, k, st[PrimaryKey(d, k)].head) \cup {PrimaryKey(d, k)})

\* HSET of one field: the field count grows when the field entry is new
HashDbPut(st, d, k, f, v) ==
    LET isNew == HashFieldKey(d, k, f) \notin DOMAIN st
        p == IF PrimaryKey(d, k) \in DOMAIN st
             THEN st[PrimaryKey(d, k)]
             ELSE [type |-> "hash", exp |-> NoExp, count |-> 0]
        p2 == IF isNew THEN [p EXCEPT !.count = p.count + 1] ELSE p
    IN  [st |-> Put(Put(st, HashFieldKey(d, k, f), v), PrimaryKey(d, k), p2),
         added |-> IF isNew THEN 1 ELSE 0]

GetReply(st, t, d, k) ==
    LET p == GenericDbGet(st, t, d, k)
    IN  IF p.type = "none" THEN RNil
        ELSE IF p.type # "string" THEN RErr(ErrWrongType)
        ELSE RBulk(p.payload)

LLenReply(st, t, d, k) ==
    LET p == GenericDbGet(st, t, d, k)
    IN  IF p.type = "none" THEN RInt(0)
        ELSE IF p.type # "list" THEN RErr(ErrWrongType)
        ELSE RInt(p.len)

HGetReply(st, t, d, k, f) ==
    LET p == GenericDbGet(st, t, d, k)
    IN  IF p.type = "none" THEN RNil
        ELSE IF p.type # "hash" THEN RErr(ErrWrongType)
        ELSE IF HashFieldKey(d, k, f) \in DOMAIN st
             THEN RBulk(st[HashFieldKey(d, k, f)])
             ELSE RNil

(***************************************************************************)
(* The command registry: CommandsManager::default.                         *)
(***************************************************************************)
CommandNames ==
    {"set", "get", "lpush", "llen", "select", "ttl", "del", "exists", "expire",
     "hset", "hget"}

\* the registered arity: N > 0 stands for exactly N tokens, the name
\* included, and -N for at least N tokens
Arity(name) ==
    CASE name = "set" -> 3
      [] name = "get" -> 2
      [] name = "lpush" -> -3
      [] name = "llen" -> 2
      [] name = "select" -> 2
      [] name = "ttl" -> 2
      [] name = "del" -> -2
      [] name = "exists" -> -2
      [] name = "expire" -> -3
      [] name = "hset" -> -4
      [] name = "hget" -> 3

\* the commands whose metadata is built with write()
WriteCommands == {"set", "lpush", "del", "expire", "hset"}

IsWriteCommand(name) == name \in WriteCommands

(***************************************************************************)
(* Requests.                                                               *)
(***************************************************************************)
SeqsUpTo(S, n) == UNION {[1 .. m -> S] : m \in 0 .. n}

KeyLists(K) == SeqsUpTo(K, MaxArgs)
OneKeyArgs(K) == {<<k>> : k \in K}
SetPlainArgs(K, V) == {<<k, v>> : k \in K, v \in V}
SetExArgs(K, V) == {<<k, v, TokEX, DigitTok(n)>> : k \in K, v \in V, n \in 1 .. MaxSeconds}
\* LPUSH of one element, and of several in one request
LPushArgs(K, V) ==
    {<<k, v>> : k \in K, v \in V}
        \cup {<<k>> \o [i \in 1 .. MaxListLen |-> v] : k \in K, v \in V}
HSetArgs(K, F, V) == {<<k, f, v>> : k \in K, f \in F, v \in V}
HGetArgs(K, F) == {<<k, f>> : k \in K, f \in F}
ExpirePlainArgs(K) == {<<k, DigitTok(n)>> : k \in K, n \in 0 .. MaxSeconds}
ExpireArgs(K) ==
    {<<k, s>> : k \in K, s \in SecTokens}
        \cup {<<k, s, o>> : k \in K, s \in SecTokens, o \in OptTokens}

\* history of the latest successful EXPIRE
NotArmed == [on |-> FALSE]
Arm(d, k, n, t) == [on |-> TRUE, d |-> d, k |-> k, n |-> n, at |-> t]
\* a write to one of the keys ks of database d ends the history of that key
Disarm(d, ks) == IF armed.on /\ armed.d = d /\ armed.k \in ks THEN NotArmed ELSE armed

\* no call of wakeup_clients yet
NoWake == [key |-> <<>>, n |-> 0, sent |-> <<>>, failed |-> <<>>]
\* a worker that runs no handler
NotRunning == [at |-> "idle", cmd |-> "none"]

\* no request is being answered
NoCmd == [cmd |-> "none", conn |-> "c1", args |-> <<>>, reply |-> RNil]
Idle == last.cmd = "none"

\* a handler takes the next request of connection c and leaves its reply in
\* the response buffer
Done(c, name, args, reply) ==
    /\ Idle
    /\ last' = [cmd |-> name, conn |-> c, args |-> args, reply |-> reply]
    /\ UNCHANGED serverVars

\* the response buffer is written to the connection
Flush ==
    /\ ~Idle
    /\ last' = NoCmd
    /\ UNCHANGED <<store, now, db, armed>>
    /\ UNCHANGED serverVars

(***************************************************************************)
(* Handlers of the string, list and hash commands.                         *)
(***************************************************************************)
\* SET key value [EX seconds]
Set(c, args) ==
    LET k == args[1]
        exp == IF Len(args) = 4 THEN SetTtlSeconds(ParseU64(args[4]), now) ELSE NoExp
    IN  /\ store' = StringsDbPut(store, db[c], k, exp, args[2])
        /\ Done(c, "set", args, ROk)
        /\ armed' = Disarm(db[c], {k})
        /\ UNCHANGED <<now, db>>

\* GET key
Get(c, args) ==
    /\ Done(c, "get", args, GetReply(store, now, db[c], args[1]))
    /\ UNCHANGED <<store, now, db, armed>>

\* LPUSH key element [element ...]
LPush(c, args) ==
    LET k == args[1]
        p == GenericDbGet(store, now, db[c], k)
        st == ListPush(PurgeIfExpired(store, now, db[c], k), db[c], k, Tail(args))
    IN  IF p.type \notin {"none", "list"}
        THEN /\ Done(c, "lpush", args, RErr(ErrWrongType))
             /\ UNCHANGED <<store, now, db, armed>>
        ELSE /\ st[PrimaryKey(db[c], k)].len <= MaxListLen
             /\ store' = st
             /\ Done(c, "lpush", args, RInt(st[PrimaryKey(db[c], k)].len))
             /\ armed' = Disarm(db[c], {k})
             /\ UNCHANGED <<now, db>>

\* LLEN key
LLen(c, args) ==
    /\ Done(c, "llen", args, LLenReply(store, now, db[c], args[1]))
    /\ UNCHANGED <<store, now, db, armed>>

\* HSET key field value
HSet(c, args) ==
    LET k == args[1]
        p == GenericDbGet(store, now, db[c], k)
        r == HashDbPut(PurgeIfExpired(store, now, db[c], k), db[c], k, args[2], args[3])
    IN  IF p.type \notin {"none", "hash"}
        THEN /\ Done(c, "hset", args, RErr(ErrWrongType))
             /\ UNCHANGED <<store, now, db, armed>>
        ELSE /\ store' = r.st
             /\ Done(c, "hset", args, RInt(r.added))
             /\ armed' = Disarm(db[c], {k})
             /\ UNCHANGED <<now, db>>

\* HGET key field
HGet(c, args) ==
    /\ Done(c, "hget", args, HGetReply(store, now, db[c], args[1], args[2]))
    /\ UNCHANGED <<store, now, db, armed>>

\* SELECT index
Select(c, d) ==
    /\ db' = [db EXCEPT ![c] = d]
    /\ Done(c, "select", <<DigitTok(d)>>, ROk)
    /\ UNCHANGED <<store, now, armed>>

(***************************************************************************)
(* GenericCommands.                                                        *)
(***************************************************************************)
\* check_args_count!: the request has at least min tokens, the name included
CheckArgsCount(args, min) == Len(args) + 1 >= min

QueryKeyType(st, t, d, k) == GenericDbGet(st, t, d, k).type

\* DelKey with a slip: the counter is incremented for a missing key too
DelKeyCountsMissing(st, t, d, k) ==
    LET key_type == QueryKeyType(st, t, d, k)
    IN  IF key_type = "list"
        THEN [st |-> ListRemove(st, d, k), deleted |-> 1]
        ELSE [st |-> GenericDbDelete(st, d, k), deleted |-> 1]

\* DelKey with a slip: the delete of one key empties its database
DelKeyWholeDb(st, t, d, k) ==
    LET key_type == QueryKeyType(st, t, d, k)
    IN  IF key_type # "none"
        THEN [st |-> Drop(st, {r \in DOMAIN st : r.db = d}), deleted |-> 1]
        ELSE [st |-> st, deleted |-> 0]

\* one iteration of the loop of del: the key's type decides how it is removed
DelKey(st, t, d, k) ==
    LET key_type == QueryKeyType(st, t, d, k)
    IN  IF key_type = "string"
        THEN [st |-> GenericDbDelete(st, d, k), deleted |-> 1]
        ELSE IF key_type = "list"
        THEN [st |-> ListRemove(st, d, k), deleted |-> 1]
        ELSE IF key_type # "none"
        THEN [st |-> GenericDbDelete(st, d, k), deleted |-> 1]
        ELSE [st |-> st, deleted |-> 0]

\* DelLoop with a slip: the keys are deleted in database 0, whatever the
\* connection has selected
RECURSIVE DelLoopDbZero(_, _, _, _, _)
DelLoopDbZero(st, t, d, keys, deleted_items) ==
    IF keys = <<>> THEN [st |-> st, deleted_items |-> deleted_items]
    ELSE LET r == DelKey(st, t, 0, Head(keys))
         IN  DelLoopDbZero(r.st, t, d, Tail(keys), deleted_items + r.deleted)

\* the loop of del over the keys of the request
RECURSIVE DelLoop(_, _, _, _, _)
DelLoop(st, t, d, keys, deleted_items) ==
    IF keys = <<>> THEN [st |-> st, deleted_items |-> deleted_items]
    ELSE LET r == DelKey(st, t, d, Head(keys))
         IN  DelLoop(r.st, t, d, Tail(keys), deleted_items + r.deleted)

\* DEL key [key ...]
Del(c, args) ==
    IF ~CheckArgsCount(args, 2)
    THEN /\ Done(c, "del", args, RErr(ErrArgCount))
         /\ UNCHANGED <<store, now, db, armed>>
    ELSE LET r == DelLoop(store, now, db[c], args, 0)
         IN  /\ store' = r.st
             /\ Done(c, "del", args, RInt(r.deleted_items))
             /\ armed' = Disarm(db[c], {args[i] : i \in 1 .. Len(args)})
             /\ UNCHANGED <<now, db>>

\* TtlReply with a slip: the replies for "no timeout" and "no key" are swapped
TtlReplySwapped(st, t, d, k) ==
    LET value_metadata == GenericDbGet(st, t, d, k)
    IN  IF value_metadata.type # "none"
        THEN IF ~HasTtl(value_metadata.exp) THEN RInt(-2)
             ELSE RInt(TtlInSeconds(value_metadata.exp, t))
        ELSE RInt(-1)

\* the reply of ttl
TtlReply(st, t, d, k) ==
    LET value_metadata == GenericDbGet(st, t, d, k)
    IN  IF value_metadata.type # "none"
        THEN IF ~HasTtl(value_metadata.exp) THEN RInt(-1)
             ELSE RInt(TtlInSeconds(value_metadata.exp, t))
        ELSE RInt(-2)

\* TTL key
Ttl(c, args) ==
    /\ IF ~CheckArgsCount(args, 2)
       THEN Done(c, "ttl", args, RErr(ErrArgCount))
       ELSE Done(c, "ttl", args, TtlReply(store, now, db[c], args[1]))
    /\ UNCHANGED <<store, now, db, armed>>

\* ExistsLoop with a slip: a key named again later is counted once
RECURSIVE ExistsLoopDistinct(_, _, _, _, _)
ExistsLoopDistinct(st, t, d, keys, items_found) ==
    IF keys = <<>> THEN items_found
    ELSE ExistsLoopDistinct(st, t, d, Tail(keys),
                            IF /\ GenericDbContains(st, t, d, Head(keys))
                               /\ \A i \in 1 .. Len(Tail(keys)) : Tail(keys)[i] # Head(keys)
                            THEN items_found + 1 ELSE items_found)

RECURSIVE ExistsLoop(_, _, _, _, _)
ExistsLoop(st, t, d, keys, items_found) ==
    IF keys = <<>> THEN items_found
    ELSE ExistsLoop(st, t, d, Tail(keys),
                    IF GenericDbContains(st, t, d, Head(keys))
                    THEN items_found + 1 ELSE items_found)

\* EXISTS key [key ...]
Exists(c, args) ==
    /\ IF ~CheckArgsCount(args, 2)
       THEN Done(c, "exists", args, RErr(ErrArgCount))
       ELSE Done(c, "exists", args, RInt(ExistsLoop(store, now, db[c], args, 0)))
    /\ UNCHANGED <<store, now, db, armed>>

\* ExpireDecide with a slip: the tests of NX and XX are exchanged
ExpireDecideSwapped(expiration, seconds, args, t) ==
    IF Len(args) < 3
    THEN [set |-> TRUE, reply |-> RInt(1)]
    ELSE LET arg == ToLower(args[3])
         IN  IF arg = <<"n", "x">>
             THEN IF HasTtl(expiration)
                  THEN [set |-> TRUE, reply |-> RInt(1)]
                  ELSE [set |-> FALSE, reply |-> RInt(0)]
             ELSE IF arg = <<"x", "x">>
             THEN IF ~HasTtl(expiration)
                  THEN [set |-> TRUE, reply |-> RInt(1)]
                  ELSE [set |-> FALSE, reply |-> RInt(0)]
             ELSE IF arg = <<"g", "t">>
             THEN IF seconds > TtlInSeconds(expiration, t)
                  THEN [set |-> TRUE, reply |-> RInt(1)]
                  ELSE [set |-> FALSE, reply |-> RInt(0)]
             ELSE IF arg = <<"l", "t">>
             THEN IF seconds < TtlInSeconds(expiration, t)
                  THEN [set |-> TRUE, reply |-> RInt(1)]
                  ELSE [set |-> FALSE, reply |-> RInt(0)]
             ELSE [set |-> FALSE, reply |-> RErrArg(ErrUnsupportedOption, arg)]

\* ExpireDecide with a slip: GT reads the time to live of a key without
\* expiration as 0
ExpireDecideGtZero(expiration, seconds, args, t) ==
    IF Len(args) < 3
    THEN [set |-> TRUE, reply |-> RInt(1)]
    ELSE LET arg == ToLower(args[3])
             current == IF HasTtl(expiration) THEN TtlInSeconds(expiration, t) ELSE 0
         IN  IF arg = <<"n", "x">>
             THEN IF ~HasTtl(expiration)
                  THEN [set |-> TRUE, reply |-> RInt(1)]
                  ELSE [set |-> FALSE, reply |-> RInt(0)]
             ELSE IF arg = <<"x", "x">>
             THEN IF HasTtl(expiration)
                  THEN [set |-> TRUE, reply |-> RInt(1)]
                  ELSE [set |-> FALSE, reply |-> RInt(0)]
             ELSE IF arg = <<"g", "t">>
             THEN IF seconds > current
                  THEN [set |-> TRUE, reply |-> RInt(1)]
                  ELSE [set |-> FALSE, reply |-> RInt(0)]
             ELSE IF arg = <<"l", "t">>
             THEN IF seconds < TtlInSeconds(expiration, t)
                  THEN [set |-> TRUE, reply |-> RInt(1)]
                  ELSE [set |-> FALSE, reply |-> RInt(0)]
             ELSE [set |-> FALSE, reply |-> RErrArg(ErrUnsupportedOption, arg)]

\* the branch of expire that compares and rewrites the expiration:
\* [set |-> the TTL is rewritten, reply |-> the reply]
ExpireDecide(expiration, seconds, args, t) ==
    IF Len(args) < 3
    THEN [set |-> TRUE, reply |-> RInt(1)]
    ELSE LET arg == ToLower(args[3])
         IN  IF arg = <<"n", "x">>
             THEN IF ~HasTtl(expiration)
                  THEN [set |-> TRUE, reply |-> RInt(1)]
                  ELSE [set |-> FALSE, reply |-> RInt(0)]
             ELSE IF arg = <<"x", "x">>
             THEN IF HasTtl(expiration)
                  THEN [set |-> TRUE, reply |-> RInt(1)]
                  ELSE [set |-> FALSE, reply |-> RInt(0)]
             ELSE IF arg = <<"g", "t">>
             THEN IF seconds > TtlInSeconds(expiration, t)
                  THEN [set |-> TRUE, reply |-> RInt(1)]
                  ELSE [set |-> FALSE, reply |-> RInt(0)]
             ELSE IF arg = <<"l", "t">>
             THEN IF seconds < TtlInSeconds(expiration, t)
                  THEN [set |-> TRUE, reply |-> RInt(1)]
                  ELSE [set |-> FALSE, reply |-> RInt(0)]
             ELSE [set |-> FALSE, reply |-> RErrArg(ErrUnsupportedOption, arg)]

\* ExpireWrite with a slip: the entry is written back as a fresh string value
ExpireWriteFresh(st, d, k, seconds, t) ==
    Put(st, PrimaryKey(d, k), StringValue(SetTtlSeconds(seconds, t), <<>>))

\* ExpireWrite with a slip: the time to live is one second too long
ExpireWriteLong(st, d, k, seconds, t) ==
    GenericDbPutExpiration(st, d, k, SetTtlSeconds(seconds + 1, t))

\* expiration.set_ttl_seconds(seconds) and generic_db.put_expiration(key, ..)
ExpireWrite(st, d, k, seconds, t) ==
    GenericDbPutExpiration(st, d, k, SetTtlSeconds(seconds, t))

\* EXPIRE key seconds [NX | XX | GT | LT]
Expire(c, args) ==
    LET seconds == ParseU64(args[2])
        found == GenericDbGetExpiration(store, now, db[c], args[1])
    IN  IF ~CheckArgsCount(args, 3)
        THEN /\ Done(c, "expire", args, RErr(ErrArgCount))
             /\ UNCHANGED <<store, now, db, armed>>
        ELSE IF seconds = ParseFail
        THEN /\ Done(c, "expire", args, RErr(ErrNotInt))
             /\ UNCHANGED <<store, now, db, armed>>
        ELSE IF ~found.some
        THEN /\ Done(c, "expire", args, RInt(0))
             /\ UNCHANGED <<store, now, db, armed>>
        ELSE LET r == ExpireDecide(found.exp, seconds, args, now)
             IN  /\ store' = IF r.set
                             THEN ExpireWrite(store, db[c], args[1], seconds, now)
                             ELSE store
                 /\ Done(c, "expire", args, r.reply)
                 /\ armed' = IF r.set THEN Arm(db[c], args[1], seconds, now) ELSE armed
                 /\ UNCHANGED <<now, db>>

\* the clock advances by one unit
Tick ==
    /\ Idle
    /\ now < MaxTime
    /\ now' = now + 1
    /\ UNCHANGED <<store, db, last, armed>>
    /\ UNCHANGED serverVars

(***************************************************************************)
(* ServerState: the role of the server.                                    *)
(***************************************************************************)
\* is_replica with a slip: the flag is read the wrong way round
IsReplicaNegated == role_primary

IsPrimary == role_primary
IsReplica == ~IsPrimary

\* set_replica and set_primary store the role flag
SetReplica ==
    /\ Idle
    /\ role_primary' = FALSE
    /\ UNCHANGED <<extVars, store, now, db, last, armed, blocked_clients, rx, woken, run, held>>

SetPrimary ==
    /\ Idle
    /\ role_primary' = TRUE
    /\ UNCHANGED <<extVars, store, now, db, last, armed, blocked_clients, rx, woken, run, held>>

\* the handler a command name is routed to
Route(c, name, args) ==
    CASE name = "set" -> Set(c, args)
      [] name = "get" -> Get(c, args)
      [] name = "lpush" -> LPush(c, args)
      [] name = "llen" -> LLen(c, args)
      [] name = "hset" -> HSet(c, args)
      [] name = "hget" -> HGet(c, args)
      [] name = "del" -> Del(c, args)
      [] name = "exists" -> Exists(c, args)
      [] name = "ttl" -> Ttl(c, args)
      [] name = "expire" -> Expire(c, args)

\* the dispatcher: a write command is refused while the server is a replica,
\* every other request is routed to its handler
HandleCommand(c, name, args) ==
    IF IsReplica /\ IsWriteCommand(name)
    THEN /\ Done(c, name, args, RErr(ErrReadOnly))
         /\ UNCHANGED <<store, now, db, armed>>
    ELSE Route(c, name, args)

(***************************************************************************)
(* ServerState: the registry of blocked clients.  A channel is named by    *)
(* the number of the block_client call that made it; rx holds its          *)
(* receiving side, the queues of blocked_clients hold clones of its        *)
(* sender.                                                                 *)
(***************************************************************************)
\* the keys a blocking command waits for
BlockKeys ==
    {<<k>> : k \in Keys} \cup {ks \in {<<k1, k2>> : k1 \in Keys, k2 \in Keys} : ks[1] # ks[2]}

\* a receiver is open until the client that owns it drops it
IsOpen(r, id) == r[id].state = "open"

\* client_channel.send(0u8): fails when the receiver is gone
SendFails(r, id) == ~IsOpen(r, id)
Send(r, id) == [r EXCEPT ![id].signals = @ + 1]

\* the push of block_client with a slip: only the first key gets the sender
PushSenderFirstKeyOnly(bc, keys, id) ==
    IF Head(keys) \in DOMAIN bc
    THEN [bc EXCEPT ![Head(keys)] = Append(@, id)]
    ELSE Put(bc, Head(keys), <<id>>)

\* the push of block_client with a slip: the sender goes to the head of the queue
RECURSIVE PushSenderAtHead(_, _, _)
PushSenderAtHead(bc, keys, id) ==
    IF keys = <<>> THEN bc
    ELSE LET key == Head(keys)
             pushed == IF key \in DOMAIN bc
                       THEN [bc EXCEPT ![key] = <<id>> \o @]
                       ELSE Put(bc, key, <<id>>)
         IN  PushSenderAtHead(pushed, Tail(keys), id)

\* the push of block_client with a slip: two clones of the sender go onto the
\* queue of each key
RECURSIVE PushSenderTwice(_, _, _)
PushSenderTwice(bc, keys, id) ==
    IF keys = <<>> THEN bc
    ELSE LET key == Head(keys)
             pushed == IF key \in DOMAIN bc
                       THEN [bc EXCEPT ![key] = @ \o <<id, id>>]
                       ELSE Put(bc, key, <<id, id>>)
         IN  PushSenderTwice(pushed, Tail(keys), id)

\* the loop of block_client: a clone of the sender is pushed onto the queue of
\* each key, and the queue is made on the first use of the key
RECURSIVE PushSender(_, _, _)
PushSender(bc, keys, id) ==
    IF keys = <<>> THEN bc
    ELSE LET key == Head(keys)
             pushed == IF key \in DOMAIN bc
                       THEN [bc EXCEPT ![key] = Append(@, id)]
                       ELSE Put(bc, key, <<id>>)
         IN  PushSender(pushed, Tail(keys), id)

\* block_client(keys): a channel of capacity |keys| is made, its sender is
\* pushed and its receiver handed to the client that blocks
BlockClient(keys) ==
    LET id == Len(rx) + 1
    IN  /\ Len(rx) < MaxChannels
        /\ rx' = Append(rx, [state |-> "open", signals |-> 0, cap |-> Len(keys)])
        /\ blocked_clients' = PushSender(blocked_clients, keys, id)
        /\ UNCHANGED <<extVars, store, now, db, last, armed, role_primary, woken, run, held>>

\* the loop of wakeup_clients with a slip: a failed send uses up the budget too
RECURSIVE WakeLoopCountsFailures(_, _, _, _, _)
WakeLoopCountsFailures(queue, r, num_clients, sent, failed) ==
    IF num_clients > 0 /\ queue # <<>>
    THEN LET client_channel == Head(queue)
         IN  IF SendFails(r, client_channel)
             THEN WakeLoopCountsFailures(Tail(queue), r, num_clients - 1, sent,
                                         Append(failed, client_channel))
             ELSE WakeLoopCountsFailures(Tail(queue), Send(r, client_channel),
                                         num_clients - 1,
                                         Append(sent, client_channel), failed)
    ELSE [queue |-> queue, rx |-> r, sent |-> sent, failed |-> failed]

\* the loop of wakeup_clients with a slip: the youngest sender is popped
RECURSIVE WakeLoopPopsBack(_, _, _, _, _)
WakeLoopPopsBack(queue, r, num_clients, sent, failed) ==
    IF num_clients > 0 /\ queue # <<>>
    THEN LET client_channel == queue[Len(queue)]
             rest == SubSeq(queue, 1, Len(queue) - 1)
         IN  IF SendFails(r, client_channel)
             THEN WakeLoopPopsBack(rest, r, num_clients, sent,
                                   Append(failed, client_channel))
             ELSE WakeLoopPopsBack(rest, Send(r, client_channel), num_clients - 1,
                                   Append(sent, client_channel), failed)
    ELSE [queue |-> queue, rx |-> r, sent |-> sent, failed |-> failed]

\* the loop of wakeup_clients: senders are popped from the head of the queue
\* until num_clients signals were sent or the queue is empty
RECURSIVE WakeLoop(_, _, _, _, _)
WakeLoop(queue, r, num_clients, sent, failed) ==
    IF num_clients > 0 /\ queue # <<>>
    THEN LET client_channel == Head(queue)
         IN  IF SendFails(r, client_channel)
             THEN WakeLoop(Tail(queue), r, num_clients, sent,
                           Append(failed, client_channel))
             ELSE WakeLoop(Tail(queue), Send(r, client_channel), num_clients - 1,
                           Append(sent, client_channel), failed)
    ELSE [queue |-> queue, rx |-> r, sent |-> sent, failed |-> failed]

\* wakeup_clients with a slip: the entry of a key whose queue was emptied
\* stays in the registry
WakeupClientsKeepsEntry(key, num_clients) ==
    IF DOMAIN blocked_clients = {} \/ key \notin DOMAIN blocked_clients
    THEN /\ woken' = [key |-> key, n |-> num_clients, sent |-> <<>>, failed |-> <<>>]
         /\ UNCHANGED <<extVars, store, now, db, last, armed, role_primary, blocked_clients,
                        rx, run, held>>
    ELSE LET w == WakeLoop(blocked_clients[key], rx, num_clients, <<>>, <<>>)
         IN  /\ blocked_clients' = [blocked_clients EXCEPT ![key] = w.queue]
             /\ rx' = w.rx
             /\ woken' = [key |-> key, n |-> num_clients, sent |-> w.sent,
                          failed |-> w.failed]
             /\ UNCHANGED <<extVars, store, now, db, last, armed, role_primary, run, held>>

\* wakeup_clients(key, num_clients)
WakeupClients(key, num_clients) ==
    IF DOMAIN blocked_clients = {} \/ key \notin DOMAIN blocked_clients
    THEN /\ woken' = [key |-> key, n |-> num_clients, sent |-> <<>>, failed |-> <<>>]
         /\ UNCHANGED <<extVars, store, now, db, last, armed, role_primary, blocked_clients,
                        rx, run, held>>
    ELSE LET w == WakeLoop(blocked_clients[key], rx, num_clients, <<>>, <<>>)
             remove_key == w.queue = <<>>
         IN  /\ blocked_clients' = IF remove_key
                                   THEN Drop(blocked_clients, {key})
                                   ELSE [blocked_clients EXCEPT ![key] = w.queue]
             /\ rx' = w.rx
             /\ woken' = [key |-> key, n |-> num_clients, sent |-> w.sent,
                          failed |-> w.failed]
             /\ UNCHANGED <<extVars, store, now, db, last, armed, role_primary, run, held>>

\* a blocked client receives a signal and resumes: its receiver is dropped
Receive(id) ==
    /\ id \in 1 .. Len(rx)
    /\ IsOpen(rx, id)
    /\ rx[id].signals > 0
    /\ rx' = [rx EXCEPT ![id].state = "resumed"]
    /\ UNCHANGED <<extVars, store, now, db, last, armed, role_primary, blocked_clients,
                   woken, run, held>>

\* the deadline of a blocked client passes, or its connection closes: the
\* receiver is dropped; ServerState has no operation that takes a sender out
\* of a queue other than the pop of wakeup_clients
Timeout(id) ==
    /\ id \in 1 .. Len(rx)
    /\ IsOpen(rx, id)
    /\ rx' = [rx EXCEPT ![id].state = "timedout"]
    /\ UNCHANGED <<extVars, store, now, db, last, armed, role_primary, blocked_clients,
                   woken, run, held>>

(***************************************************************************)
(* block_client and wakeup_clients called by two workers at once.  The     *)
(* registry is a concurrent map: each get, push, pop, insert and remove is *)
(* atomic, a call is a sequence of them.  run[c] is the position of worker *)
(* c in its call.                                                          *)
(***************************************************************************)
\* block_client(<<key>>): the channel is made and the entry of the key looked
\* up; the sender is pushed onto the queue found, else a queue is made for it
BlockClientGet(c, key) ==
    LET id == Len(rx) + 1
    IN  /\ run[c].at = "idle"
        /\ Len(rx) < MaxChannels
        /\ rx' = Append(rx, [state |-> "open", signals |-> 0, cap |-> 1])
        /\ IF key \in DOMAIN blocked_clients
           THEN /\ blocked_clients' = [blocked_clients EXCEPT ![key] = Append(@, id)]
                /\ UNCHANGED run
           ELSE /\ run' = [run EXCEPT ![c] = [at |-> "bc_insert", cmd |-> "block_client",
                                              key |-> key, channel_queue |-> <<id>>]]
                /\ UNCHANGED blocked_clients
        /\ UNCHANGED <<extVars, store, now, db, last, armed, role_primary, woken, held>>

\* block_client: the queue made for the key is inserted and replaces the
\* entry the key has by now
BlockClientInsert(c) ==
    /\ run[c].at = "bc_insert"
    /\ blocked_clients' = Put(blocked_clients, run[c].key, run[c].channel_queue)
    /\ run' = [run EXCEPT ![c] = NotRunning]
    /\ UNCHANGED <<extVars, store, now, db, last, armed, role_primary, rx, woken, held>>

\* wakeup_clients(key, num_clients): the senders are popped and signalled,
\* and channel_queue.is_empty() decides whether the entry is to be removed
WakeupClientsPop(c, key, num_clients) ==
    /\ run[c].at = "idle"
    /\ key \in DOMAIN blocked_clients
    /\ LET w == WakeLoop(blocked_clients[key], rx, num_clients, <<>>, <<>>)
           remove_key == w.queue = <<>>
       IN  /\ blocked_clients' = [blocked_clients EXCEPT ![key] = w.queue]
           /\ rx' = w.rx
           /\ woken' = [key |-> key, n |-> num_clients, sent |-> w.sent,
                        failed |-> w.failed]
           /\ IF remove_key
              THEN run' = [run EXCEPT ![c] = [at |-> "wk_remove", cmd |-> "wakeup_clients",
                                              key |-> key]]
              ELSE UNCHANGED run
    /\ UNCHANGED <<extVars, store, now, db, last, armed, role_primary, held>>

\* wakeup_clients: the entry of the key is removed, with the queue it holds
WakeupClientsRemove(c) ==
    /\ run[c].at = "wk_remove"
    /\ blocked_clients' = Drop(blocked_clients, {run[c].key})
    /\ run' = [run EXCEPT ![c] = NotRunning]
    /\ UNCHANGED <<extVars, store, now, db, last, armed, role_primary, rx, woken, held>>

(***************************************************************************)
(* The generic commands on parallel workers.  Each connection is served by *)
(* a worker of its own; a handler takes one step for each lock it acquires *)
(* and for each operation on the store it makes.  run[c] is the position   *)
(* of the handler of connection c, held the set of key locks.              *)
(***************************************************************************)
\* LockManager: an exclusive lock excludes every other lock of the key, a
\* shared lock excludes the exclusive one
KeyLock(c, d, k, mode) == [c |-> c, d |-> d, k |-> k, mode |-> mode]

CanLock(h, c, d, k, mode) ==
    \A l \in h : (l.d = d /\ l.k = k) => (mode = "shared" /\ l.mode = "shared")

Acquire(h, c, d, k, mode) == h \cup {KeyLock(c, d, k, mode)}

\* the locks of a worker are released when its handler returns
ReleaseAll(h, c) == {l \in h : l.c # c}

\* the lock each handler asks for; expire with a slip: a shared lock
ExpireLockModeShared == "shared"
DelLockMode == "exclusive"
ExpireLockMode == "exclusive"
TtlLockMode == "shared"

\* the lock of del with a slip: the guard outlives the iteration of the loop
DelUnlockAtReturn(h, c, d, k) == h

\* the guard of del goes out of scope at the end of each iteration of the loop
DelUnlock(h, c, d, k) == h \ {KeyLock(c, d, k, DelLockMode)}

Running(c) == run[c].at \notin {"idle", "done"}

\* the return of a handler with a slip: its guard is not dropped
ReturnKeepsLocks(c, name, args, reply) ==
    /\ run' = [run EXCEPT ![c] = [at |-> "done", cmd |-> name, args |-> args,
                                  reply |-> reply,
                                  existed |-> IF "existed" \in DOMAIN run[c]
                                              THEN run[c].existed ELSE FALSE]]
    /\ held' = held

\* the handler of connection c has returned with a reply
Return(c, name, args, reply) ==
    /\ run' = [run EXCEPT ![c] = [at |-> "done", cmd |-> name, args |-> args,
                                  reply |-> reply,
                                  existed |-> IF "existed" \in DOMAIN run[c]
                                              THEN run[c].existed ELSE FALSE]]
    /\ held' = ReleaseAll(held, c)

\* the reply is written to the connection, which takes its next request
Finish(c) ==
    /\ run[c].at = "done"
    /\ run' = [run EXCEPT ![c] = NotRunning]
    /\ UNCHANGED <<extVars, store, now, db, last, armed, role_primary, blocked_clients, rx,
                   woken, held>>

\* SET key value, under the exclusive lock of the key
SetLocked(c, args) ==
    /\ run[c].at = "idle"
    /\ CanLock(held, c, db[c], args[1], "exclusive")
    /\ store' = StringsDbPut(store, db[c], args[1], NoExp, args[2])
    /\ UNCHANGED <<extVars, now, db, last, armed, role_primary, blocked_clients, rx, woken,
                   run, held>>

\* del: the request is taken, its argument count checked
DelStart(c, args) ==
    /\ run[c].at = "idle"
    /\ IF ~CheckArgsCount(args, 2)
       THEN Return(c, "del", args, RErr(ErrArgCount))
       ELSE /\ run' = [run EXCEPT ![c] = [at |-> "del_lock", cmd |-> "del",
                                          args |-> args, i |-> 1, deleted_items |-> 0]]
            /\ UNCHANGED held
    /\ UNCHANGED <<extVars, store, now, db, last, armed, role_primary, blocked_clients, rx, woken>>

\* del: the exclusive lock of the next key is acquired
DelLock(c) ==
    /\ run[c].at = "del_lock"
    /\ CanLock(held, c, db[c], run[c].args[run[c].i], DelLockMode)
    /\ held' = Acquire(held, c, db[c], run[c].args[run[c].i], DelLockMode)
    /\ run' = [run EXCEPT ![c].at = "del_key"]
    /\ UNCHANGED <<extVars, store, now, db, last, armed, role_primary, blocked_clients, rx, woken>>

\* del: the key is deleted as its type demands and its lock released; after
\* the last key the number of deleted keys is the reply
DelDelete(c) ==
    /\ run[c].at = "del_key"
    /\ LET k == run[c].args[run[c].i]
           r == DelKey(store, now, db[c], k)
           deleted_items == run[c].deleted_items + r.deleted
       IN  /\ store' = r.st
           /\ IF run[c].i = Len(run[c].args)
              THEN Return(c, "del", run[c].args, RInt(deleted_items))
              ELSE /\ run' = [run EXCEPT ![c].at = "del_lock", ![c].i = @ + 1,
                                         ![c].deleted_items = deleted_items]
                   /\ held' = DelUnlock(held, c, db[c], k)
    /\ UNCHANGED <<extVars, now, db, last, armed, role_primary, blocked_clients, rx, woken>>

\* exists: the request is taken; no lock is asked for
ExistsStart(c, args) ==
    /\ run[c].at = "idle"
    /\ IF ~CheckArgsCount(args, 2)
       THEN Return(c, "exists", args, RErr(ErrArgCount))
       ELSE /\ run' = [run EXCEPT ![c] =
                          [at |-> "exists_read", cmd |-> "exists", args |-> args,
                           i |-> 1, items_found |-> 0,
                           existed |-> GenericDbContains(store, now, db[c], args[1])]]
            /\ UNCHANGED held
    /\ UNCHANGED <<extVars, store, now, db, last, armed, role_primary, blocked_clients, rx, woken>>

\* exists: generic_db.contains of the next key
ExistsRead(c) ==
    /\ run[c].at = "exists_read"
    /\ LET k == run[c].args[run[c].i]
           items_found == run[c].items_found
                            + (IF GenericDbContains(store, now, db[c], k) THEN 1 ELSE 0)
       IN  IF run[c].i = Len(run[c].args)
           THEN Return(c, "exists", run[c].args, RInt(items_found))
           ELSE /\ run' = [run EXCEPT ![c].i = @ + 1, ![c].items_found = items_found]
                /\ UNCHANGED held
    /\ UNCHANGED <<extVars, store, now, db, last, armed, role_primary, blocked_clients, rx, woken>>

\* ttl: the request is taken, its argument count checked
TtlStart(c, args) ==
    /\ run[c].at = "idle"
    /\ IF ~CheckArgsCount(args, 2)
       THEN Return(c, "ttl", args, RErr(ErrArgCount))
       ELSE /\ run' = [run EXCEPT ![c] = [at |-> "ttl_lock", cmd |-> "ttl", args |-> args]]
            /\ UNCHANGED held
    /\ UNCHANGED <<extVars, store, now, db, last, armed, role_primary, blocked_clients, rx, woken>>

\* ttl: the shared lock of the key is acquired
TtlLock(c) ==
    /\ run[c].at = "ttl_lock"
    /\ CanLock(held, c, db[c], run[c].args[1], TtlLockMode)
    /\ held' = Acquire(held, c, db[c], run[c].args[1], TtlLockMode)
    /\ run' = [run EXCEPT ![c].at = "ttl_read"]
    /\ UNCHANGED <<extVars, store, now, db, last, armed, role_primary, blocked_clients, rx, woken>>

\* ttl: the expiration is read and the reply made
TtlRead(c) ==
    /\ run[c].at = "ttl_read"
    /\ Return(c, "ttl", run[c].args, TtlReply(store, now, db[c], run[c].args[1]))
    /\ UNCHANGED <<extVars, store, now, db, last, armed, role_primary, blocked_clients, rx, woken>>

\* expire: the request is taken, its arguments checked and parsed
ExpireStart(c, args) ==
    /\ run[c].at = "idle"
    /\ IF ~CheckArgsCount(args, 3)
       THEN Return(c, "expire", args, RErr(ErrArgCount))
       ELSE IF ParseU64(args[2]) = ParseFail
       THEN Return(c, "expire", args, RErr(ErrNotInt))
       ELSE /\ run' = [run EXCEPT ![c] = [at |-> "expire_lock", cmd |-> "expire",
                                          args |-> args]]
            /\ UNCHANGED held
    /\ UNCHANGED <<extVars, store, now, db, last, armed, role_primary, blocked_clients, rx, woken>>

\* expire: the lock of the key is acquired
ExpireLock(c) ==
    /\ run[c].at = "expire_lock"
    /\ CanLock(held, c, db[c], run[c].args[1], ExpireLockMode)
    /\ held' = Acquire(held, c, db[c], run[c].args[1], ExpireLockMode)
    /\ run' = [run EXCEPT ![c].at = "expire_read"]
    /\ UNCHANGED <<extVars, store, now, db, last, armed, role_primary, blocked_clients, rx, woken>>

\* expire: generic_db.get_expiration; an absent key is answered with 0
ExpireRead(c) ==
    /\ run[c].at = "expire_read"
    /\ LET found == GenericDbGetExpiration(store, now, db[c], run[c].args[1])
       IN  IF ~found.some
           THEN Return(c, "expire", run[c].args, RInt(0))
           ELSE /\ run' = [run EXCEPT ![c] = [at |-> "expire_write", cmd |-> "expire",
                                              args |-> run[c].args,
                                              expiration |-> found.exp]]
                /\ UNCHANGED held
    /\ UNCHANGED <<extVars, store, now, db, last, armed, role_primary, blocked_clients, rx, woken>>

\* expire: the option is matched against the expiration that was read, and
\* the new expiration written back
ExpireWriteBack(c) ==
    /\ run[c].at = "expire_write"
    /\ LET args == run[c].args
           seconds == ParseU64(args[2])
           r == ExpireDecide(run[c].expiration, seconds, args, now)
       IN  /\ store' = IF r.set /\ PrimaryKey(db[c], args[1]) \in DOMAIN store
                       THEN ExpireWrite(store, db[c], args[1], seconds, now)
                       ELSE store
           /\ Return(c, "expire", args, r.reply)
    /\ UNCHANGED <<extVars, now, db, last, armed, role_primary, blocked_clients, rx, woken>>

\* Err(SableError): the handler returned the error of the storage with `?`
\* and wrote no reply
SableError == [t |-> "fail", e |-> "SableError"]

\* the positions at which a handler calls the storage, its lock held
StorageCalls == {"del_key", "ttl_read", "expire_read", "expire_write"}

\* the storage fails under the handler of connection c: the handler returns
\* the error at once, its guard is dropped, the store is as the call found it
StorageError(c) ==
    /\ run[c].at \in StorageCalls
    /\ run' = [run EXCEPT ![c] = [at |-> "done", cmd |-> run[c].cmd, args |-> run[c].args,
                                  reply |-> SableError, existed |-> FALSE,
                                  i |-> IF "i" \in DOMAIN run[c] THEN run[c].i ELSE 1,
                                  deleted_items |-> IF "deleted_items" \in DOMAIN run[c]
                                                    THEN run[c].deleted_items ELSE 0]]
    /\ held' = ReleaseAll(held, c)
    /\ UNCHANGED <<extVars, store, now, db, last, armed, role_primary, blocked_clients, rx, woken>>

(***************************************************************************)
(* ServerState: REPLICAOF.  connect_to_primary and switch_role_to_primary  *)
(* persist the replication configuration, send a message to the replicator *)
(* and store the role flag; a step that fails ends the call with an error. *)
(***************************************************************************)
Hosts == {"h1", "h2"}
Ports == {7000, 7001}
ListenIp == "127.0.0.1"
ListenPort == 6379
PortOffset == 1000

\* ReplicationConfig
ReplicaConfig(address, port) == [role |-> "Replica", ip |-> address, port |-> port]
PrimaryConfig == [role |-> "Primary", ip |-> ListenIp, port |-> ListenPort + PortOffset]

\* no role change is being made
NoAdmin == [op |-> "none"]
AdminIdle == admin.op = "none"

\* a role change is at step pc of its steps
AdminCall(op, address, port, steps) ==
    [op |-> op, ip |-> address, port |-> port, steps |-> steps, pc |-> 1,
     result |-> "running", trace |-> <<>>, was_primary |-> role_primary]

\* connect_to_primary with a slip: the role flag is stored before the
\* configuration is persisted and the replicator is told
ConnectStepsRoleFirst == <<"set_replica", "write_file", "send">>

\* the steps of connect_to_primary on a server with a replicator, in order
ConnectSteps == <<"write_file", "send", "set_replica">>

\* switch_role_to_primary with the role flag stored whether or not there is
\* a replicator
SwitchStepsAlways(has_replicator) ==
    IF has_replicator THEN <<"write_file", "send", "set_primary">>
    ELSE <<"write_file", "set_primary">>

\* the steps of switch_role_to_primary: the configuration is persisted
\* first; the message and the role flag only with a replicator
SwitchSteps(has_replicator) ==
    IF has_replicator THEN <<"write_file", "send", "set_primary">>
    ELSE <<"write_file">>

\* REPLICAOF host port
ConnectToPrimary(address, port) ==
    /\ AdminIdle
    /\ admin' = AdminCall("connect", address, port,
                          IF replicator_context THEN ConnectSteps ELSE <<>>)
    /\ UNCHANGED <<replicator_context, repl_file, replicator_rx, pending>>
    /\ UNCHANGED <<store, now, db, last, armed, role_primary, blocked_clients, rx, woken,
                   run, held, workerVars, storageVars>>

\* REPLICAOF NO ONE
SwitchRoleToPrimary ==
    /\ AdminIdle
    /\ admin' = AdminCall("switch", ListenIp, ListenPort + PortOffset,
                          SwitchSteps(replicator_context))
    /\ UNCHANGED <<replicator_context, repl_file, replicator_rx, pending>>
    /\ UNCHANGED <<store, now, db, last, armed, role_primary, blocked_clients, rx, woken,
                   run, held, workerVars, storageVars>>

AdminRunning == ~AdminIdle /\ admin.result = "running"
AdminStepName == admin.steps[admin.pc]
AdminAdvance(name) ==
    [admin EXCEPT !.pc = @ + 1, !.trace = Append(@, name)]
AdminFail == [admin EXCEPT !.result = "err"]

\* ReplicationConfig::write_file: the configuration is persisted, or the
\* write fails and the call returns the error
WriteFile ==
    /\ AdminRunning
    /\ admin.pc <= Len(admin.steps)
    /\ AdminStepName = "write_file"
    /\ \/ /\ repl_file' = IF admin.op = "connect"
                          THEN ReplicaConfig(admin.ip, admin.port)
                          ELSE PrimaryConfig
          /\ admin' = AdminAdvance("write_file")
       \/ /\ admin' = AdminFail
          /\ UNCHANGED repl_file
    /\ UNCHANGED <<replicator_context, replicator_rx, pending>>
    /\ UNCHANGED <<store, now, db, last, armed, role_primary, blocked_clients, rx, woken,
                   run, held, workerVars, storageVars>>

\* the message to the replicator is sent, or the channel is closed and the
\* call returns the error
SendToReplicator ==
    /\ AdminRunning
    /\ admin.pc <= Len(admin.steps)
    /\ AdminStepName = "send"
    /\ \/ /\ Len(replicator_rx) < MaxMessages
          /\ replicator_rx' = Append(replicator_rx,
                                     IF admin.op = "connect" THEN "ConnectToPrimary"
                                     ELSE "PrimaryMode")
          /\ admin' = AdminAdvance("send")
       \/ /\ admin' = AdminFail
          /\ UNCHANGED replicator_rx
    /\ UNCHANGED <<replicator_context, repl_file, pending>>
    /\ UNCHANGED <<store, now, db, last, armed, role_primary, blocked_clients, rx, woken,
                   run, held, workerVars, storageVars>>

\* set_replica or set_primary at the end of a role change
SetRole ==
    /\ AdminRunning
    /\ admin.pc <= Len(admin.steps)
    /\ AdminStepName \in {"set_replica", "set_primary"}
    /\ role_primary' = (AdminStepName = "set_primary")
    /\ admin' = AdminAdvance(AdminStepName)
    /\ UNCHANGED <<replicator_context, repl_file, replicator_rx, pending>>
    /\ UNCHANGED <<store, now, db, last, armed, blocked_clients, rx, woken,
                   run, held, workerVars, storageVars>>

\* the call returns Ok(()) after its last step
AdminOk ==
    /\ AdminRunning
    /\ admin.pc > Len(admin.steps)
    /\ admin' = [admin EXCEPT !.result = "ok"]
    /\ UNCHANGED <<replicator_context, repl_file, replicator_rx, pending>>
    /\ UNCHANGED <<store, now, db, last, armed, role_primary, blocked_clients, rx, woken,
                   run, held, workerVars, storageVars>>

\* the reply of REPLICAOF is written and the next request is read
AdminReturn ==
    /\ ~AdminIdle
    /\ admin.result # "running"
    /\ admin' = NoAdmin
    /\ UNCHANGED <<replicator_context, repl_file, replicator_rx, pending>>
    /\ UNCHANGED <<store, now, db, last, armed, role_primary, blocked_clients, rx, woken,
                   run, held, workerVars, storageVars>>

\* the replicator takes the next message
ReplicatorReceive ==
    /\ replicator_rx # <<>>
    /\ replicator_rx' = Tail(replicator_rx)
    /\ UNCHANGED <<replicator_context, repl_file, admin, pending>>
    /\ UNCHANGED <<store, now, db, last, armed, role_primary, blocked_clients, rx, woken,
                   run, held, workerVars, storageVars>>

\* two workers change the role at the same time: admin is the call of the
\* worker that takes the next step, pending the call of the other worker,
\* which takes the next step once the two have changed places
OtherWorkerRuns ==
    /\ admin # pending
    /\ admin' = pending
    /\ pending' = admin
    /\ UNCHANGED <<replicator_context, repl_file, replicator_rx>>
    /\ UNCHANGED <<store, now, db, last, armed, role_primary, blocked_clients, rx, woken,
                   run, held, workerVars, storageVars>>

(***************************************************************************)
(* ServerState: the directory of worker inboxes and CLIENT KILL.  Each     *)
(* worker has its own client table; a worker registers its inbox before it *)
(* serves clients.                                                         *)
(***************************************************************************)
Workers == {"w1", "w2", "w3"}
ClientIds == {"id1", "id2"}

NotConnected == [worker |-> "none", terminated |-> FALSE]
NoKill == [id |-> "none", caller |-> "none", connected |-> FALSE, found |-> FALSE,
           sent_to |-> {}]

KillClient(id) == [type |-> "KillClient", id |-> id]

\* add_worker_tx_channel
AddWorkerTxChannel(w) ==
    /\ w \notin DOMAIN worker_tx_channels
    /\ worker_tx_channels' = [x \in DOMAIN worker_tx_channels \cup {w} |->
                                  IF x = w THEN <<>> ELSE worker_tx_channels[x]]
    /\ UNCHANGED <<clients, kill>>
    /\ UNCHANGED <<store, now, db, last, armed, role_primary, blocked_clients, rx, woken,
                   run, held, adminVars, storageVars>>

\* a client connects to a worker
ClientConnect(id, w) ==
    /\ w \in DOMAIN worker_tx_channels
    /\ clients[id].worker = "none"
    /\ clients' = [clients EXCEPT ![id] = [worker |-> w, terminated |-> FALSE]]
    /\ UNCHANGED <<worker_tx_channels, kill>>
    /\ UNCHANGED <<store, now, db, last, armed, role_primary, blocked_clients, rx, woken,
                   run, held, adminVars, storageVars>>

\* Client::terminate_client on worker w: the client is marked when it is in
\* the client table of w
FoundLocally(cl, w, id) == cl[id].worker = w
ClientTerminate(cl, w, id) ==
    IF FoundLocally(cl, w, id) THEN [cl EXCEPT ![id].terminated = TRUE] ELSE cl

\* broadcast_msg with a slip: the calling worker alone gets the message
BroadcastMsgToCaller(channels, caller, message) ==
    [x \in DOMAIN channels |->
        IF x = caller THEN Append(channels[x], message) ELSE channels[x]]

\* broadcast_msg: the message is sent to the inbox of every registered
\* worker, that of the calling worker included
BroadcastMsg(channels, caller, message) ==
    [x \in DOMAIN channels |-> Append(channels[x], message)]

\* terminate_client called on worker w
TerminateClient(w, id) ==
    /\ w \in DOMAIN worker_tx_channels
    /\ IF FoundLocally(clients, w, id)
       THEN /\ clients' = ClientTerminate(clients, w, id)
            /\ kill' = [id |-> id, caller |-> w, connected |-> TRUE, found |-> TRUE,
                        sent_to |-> {}]
            /\ UNCHANGED worker_tx_channels
       ELSE /\ \A x \in DOMAIN worker_tx_channels : Len(worker_tx_channels[x]) < MaxInbox
            /\ worker_tx_channels' = BroadcastMsg(worker_tx_channels, w, KillClient(id))
            /\ kill' = [id |-> id, caller |-> w, found |-> FALSE,
                        connected |-> clients[id].worker # "none",
                        sent_to |-> {x \in DOMAIN worker_tx_channels :
                                        worker_tx_channels'[x] # worker_tx_channels[x]}]
            /\ UNCHANGED clients
    /\ UNCHANGED <<store, now, db, last, armed, role_primary, blocked_clients, rx, woken,
                   run, held, adminVars, storageVars>>

\* a worker takes the next message of its inbox and tries its client table
WorkerReceive(w) ==
    /\ w \in DOMAIN worker_tx_channels
    /\ worker_tx_channels[w] # <<>>
    /\ worker_tx_channels' = [worker_tx_channels EXCEPT ![w] = Tail(@)]
    /\ clients' = ClientTerminate(clients, w, Head(worker_tx_channels[w]).id)
    /\ UNCHANGED kill
    /\ UNCHANGED <<store, now, db, last, armed, role_primary, blocked_clients, rx, woken,
                   run, held, adminVars, storageVars>>

(***************************************************************************)
(* StorageRocksDb and the replication change stream.  The engine keeps the *)
(* key-value pairs and the write batches it committed; every record of a   *)
(* write batch takes one sequence number and a batch is known by the       *)
(* sequence number of its first record.                                    *)
(***************************************************************************)
PutRecord(k, v) == [op |-> "put", key |-> k, value |-> v]
DeleteRecord(k) == [op |-> "del", key |-> k]

\* BatchUpdate: the keys to delete and the items to put
BatchUpdate(deletes, puts) == [keys_to_delete |-> deletes, items_to_put |-> puts]

\* an engine whose put of a key that is present removes the key
RECURSIVE EngineWriteToggling(_, _)
EngineWriteToggling(kvf, ops) ==
    IF ops = <<>> THEN kvf
    ELSE EngineWriteToggling(IF Head(ops).op = "put" /\ Head(ops).key \notin DOMAIN kvf
                             THEN Put(kvf, Head(ops).key, Head(ops).value)
                             ELSE Drop(kvf, {Head(ops).key}),
                             Tail(ops))

\* the engine applies the records of a write batch in their order
RECURSIVE EngineWrite(_, _)
EngineWrite(kvf, ops) ==
    IF ops = <<>> THEN kvf
    ELSE EngineWrite(IF Head(ops).op = "put"
                     THEN Put(kvf, Head(ops).key, Head(ops).value)
                     ELSE Drop(kvf, {Head(ops).key}),
                     Tail(ops))

\* the last sequence number the engine has given out
RECURSIVE LatestSequenceNumber(_)
LatestSequenceNumber(w) ==
    IF w = <<>> THEN 0 ELSE Len(Head(w).ops) + LatestSequenceNumber(Tail(w))

\* the engine commits a write batch
Commit(w, ops) == Append(w, [seq |-> LatestSequenceNumber(w) + 1, ops |-> ops])

\* the write batch of apply_batch with a slip: the puts come before the deletes
WriteBatchOfPutsFirst(update) ==
    [i \in 1 .. Len(update.items_to_put) |->
            PutRecord(update.items_to_put[i][1], update.items_to_put[i][2])]
    \o [i \in 1 .. Len(update.keys_to_delete) |-> DeleteRecord(update.keys_to_delete[i])]

\* the write batch apply_batch assembles: every delete, then every put
WriteBatchOf(update) ==
    [i \in 1 .. Len(update.keys_to_delete) |-> DeleteRecord(update.keys_to_delete[i])]
    \o [i \in 1 .. Len(update.items_to_put) |->
            PutRecord(update.items_to_put[i][1], update.items_to_put[i][2])]

\* no storage call yet
NoIo == [op |-> "none", failed |-> FALSE, result |-> "ok"]

\* apply_batch on the primary; a failed write of the engine is returned
ApplyBatch(update, write_ok) ==
    /\ Len(wal) < MaxCommits
    /\ IF write_ok
       THEN /\ kv' = EngineWrite(kv, WriteBatchOf(update))
            /\ wal' = Commit(wal, WriteBatchOf(update))
       ELSE UNCHANGED <<kv, wal>>
    /\ io' = [op |-> "apply_batch", failed |-> ~write_ok,
              result |-> IF write_ok THEN "ok" ELSE "err"]
    /\ UNCHANGED <<replica, cursor, updates, polled>>
    /\ UNCHANGED <<store, now, db, last, armed, role_primary, blocked_clients, rx, woken,
                   run, held, adminVars, workerVars>>

\* whether put_internal writes: Override always, PutIfNotExists when the key
\* is absent, PutIfExists when it is present
PutWrites(kvf, key, put_flags) ==
    CASE put_flags = "Override" -> TRUE
      [] put_flags = "PutIfNotExists" -> key \notin DOMAIN kvf
      [] put_flags = "PutIfExists" -> key \in DOMAIN kvf

\* the result of put_internal: the error of the engine's read is returned,
\* the result of the engine's write is dropped
PutResult(put_flags, writes, read_ok, write_ok) ==
    IF put_flags # "Override" /\ ~read_ok THEN "err" ELSE "ok"

PutFlags == {"Override", "PutIfNotExists", "PutIfExists"}

\* put: the engine reads the old value unless the flag is Override, then
\* writes; read_ok and write_ok tell whether the engine succeeds
StoragePut(key, value, put_flags, read_ok, write_ok) ==
    LET reads == put_flags # "Override"
        writes == (reads => read_ok) /\ PutWrites(kv, key, put_flags)
        stored == writes /\ write_ok
    IN /\ Len(wal) < MaxCommits
       /\ IF stored
          THEN /\ kv' = Put(kv, key, value)
               /\ wal' = Commit(wal, <<PutRecord(key, value)>>)
          ELSE UNCHANGED <<kv, wal>>
       /\ io' = [op |-> "put", key |-> key, value |-> value, put_flags |-> put_flags,
                 writes |-> writes, stored |-> stored,
                 failed |-> (reads /\ ~read_ok) \/ (writes /\ ~write_ok),
                 result |-> PutResult(put_flags, writes, read_ok, write_ok)]
       /\ UNCHANGED <<replica, cursor, updates, polled>>
       /\ UNCHANGED <<store, now, db, last, armed, role_primary, blocked_clients, rx, woken,
                      run, held, adminVars, workerVars>>

\* put_internal called by two threads at once, a step for each call of the
\* engine.  The read of the old value: Override does not read, PutIfNotExists
\* returns when there is a value, PutIfExists when there is none
PutRead(c, key, value, put_flags) ==
    /\ run[c].at = "idle"
    /\ IF PutWrites(kv, key, put_flags)
       THEN run' = [run EXCEPT ![c] = [at |-> "put_write", cmd |-> "put", key |-> key,
                                       value |-> value, put_flags |-> put_flags,
                                       old_value |-> key \in DOMAIN kv]]
       ELSE UNCHANGED run
    /\ io' = [op |-> "put", key |-> key, value |-> value, put_flags |-> put_flags,
              writes |-> PutWrites(kv, key, put_flags), stored |-> FALSE,
              failed |-> FALSE, result |-> "ok"]
    /\ UNCHANGED <<kv, wal, replica, cursor, updates, polled>>
    /\ UNCHANGED <<store, now, db, last, armed, role_primary, blocked_clients, rx, woken,
                   held, adminVars, workerVars>>

\* put_internal: the engine's put_opt, after the read allowed the write
PutWrite(c) ==
    /\ run[c].at = "put_write"
    /\ Len(wal) < MaxCommits
    /\ kv' = Put(kv, run[c].key, run[c].value)
    /\ wal' = Commit(wal, <<PutRecord(run[c].key, run[c].value)>>)
    /\ run' = [run EXCEPT ![c] = NotRunning]
    /\ io' = [op |-> "put", key |-> run[c].key, value |-> run[c].value,
              put_flags |-> run[c].put_flags, writes |-> TRUE, stored |-> TRUE,
              failed |-> FALSE, result |-> "ok"]
    /\ UNCHANGED <<replica, cursor, updates, polled>>
    /\ UNCHANGED <<store, now, db, last, armed, role_primary, blocked_clients, rx, woken,
                   held, adminVars, workerVars>>

\* delete: the error of the engine is returned
StorageDelete(key, write_ok) ==
    /\ Len(wal) < MaxCommits
    /\ IF write_ok
       THEN /\ kv' = Drop(kv, {key})
            /\ wal' = Commit(wal, <<DeleteRecord(key)>>)
       ELSE UNCHANGED <<kv, wal>>
    /\ io' = [op |-> "delete", key |-> key, writes |-> TRUE, stored |-> write_ok,
              failed |-> ~write_ok,
              result |-> IF write_ok THEN "ok" ELSE "err"]
    /\ UNCHANGED <<replica, cursor, updates, polled>>
    /\ UNCHANGED <<store, now, db, last, armed, role_primary, blocked_clients, rx, woken,
                   run, held, adminVars, workerVars>>

\* get: the value, nothing, or the error of the engine
StorageGet(key, read_ok) ==
    /\ io' = [op |-> "get", key |-> key, failed |-> ~read_ok,
              result |-> IF ~read_ok THEN "err"
                         ELSE IF key \in DOMAIN kv THEN "some" ELSE "none"]
    /\ UNCHANGED <<kv, wal, replica, cursor, updates, polled>>
    /\ UNCHANGED <<store, now, db, last, armed, role_primary, blocked_clients, rx, woken,
                   run, held, adminVars, workerVars>>

\* rocksdb get_updates_since as iterated by the binding: the write batches
\* whose sequence number is after seq, in commit order
GetUpdatesSince(w, seq) == SelectSeq(w, LAMBDA b : b.seq > seq)

\* a limit of storage_updates_since: None or Some(n)
Unlimited == [some |-> FALSE]
Limit(n) == [some |-> TRUE, value |-> n]

\* StorageUpdates::from_seq_number
FromSeqNumber(seq) ==
    [start_seq_number |-> seq, end_seq_number |-> seq, changes_count |-> 0,
     serialised_data |-> <<>>]

\* StorageUpdates::add_put and add_delete: the record is serialised at the
\* end of the body, a tag followed by the key and, for a put, the value
AddPut(u, k, v) == [u EXCEPT !.serialised_data = @ \o <<"P", k, v>>]
AddDelete(u, k) == [u EXCEPT !.serialised_data = @ \o <<"D", k>>]
\* StorageUpdates::len: the bytes of the body
BodyLen(u) == Len(u.serialised_data)

\* WriteBatch::iterate with UpdateBatchIterator: every record of the write
\* batch is added to the body in the batch's order
RECURSIVE Iterate(_, _)
Iterate(u, ops) ==
    IF ops = <<>> THEN u
    ELSE Iterate(IF Head(ops).op = "put"
                 THEN AddPut(u, Head(ops).key, Head(ops).value)
                 ELSE AddDelete(u, Head(ops).key),
                 Tail(ops))

\* UpdateBatchIterator::update with a slip: the end of the batch is not kept
UpdateKeepsStart(u, seq) == [u EXCEPT !.changes_count = @ + 1]

\* UpdateBatchIterator::update: the batch ends at the write batch just
\* added and counts one more change
Update(u, seq) == [u EXCEPT !.end_seq_number = seq, !.changes_count = @ + 1]

\* the loop of storage_updates_since with a slip: the limits are tested
\* before the write batch is added
RECURSIVE UpdatesLoopTestsFirst(_, _, _, _)
UpdatesLoopTestsFirst(changes, u, memory_limit, changes_count_limit) ==
    IF changes = <<>> THEN u
    ELSE IF memory_limit.some /\ BodyLen(u) >= memory_limit.value THEN u
    ELSE IF changes_count_limit.some /\ u.changes_count >= changes_count_limit.value THEN u
    ELSE UpdatesLoopTestsFirst(Tail(changes),
                               Update(Iterate(u, Head(changes).ops), Head(changes).seq),
                               memory_limit, changes_count_limit)

\* the loop of storage_updates_since: a write batch is added, then the
\* limits are tested
RECURSIVE UpdatesLoop(_, _, _, _)
UpdatesLoop(changes, u, memory_limit, changes_count_limit) ==
    IF changes = <<>> THEN u
    ELSE LET next == Update(Iterate(u, Head(changes).ops), Head(changes).seq)
         IN IF memory_limit.some /\ BodyLen(next) >= memory_limit.value THEN next
            ELSE IF changes_count_limit.some
                    /\ next.changes_count >= changes_count_limit.value THEN next
            ELSE UpdatesLoop(Tail(changes), next, memory_limit, changes_count_limit)

StorageUpdatesSinceOf(w, sequence_number, memory_limit, changes_count_limit) ==
    UpdatesLoop(GetUpdatesSince(w, sequence_number), FromSeqNumber(sequence_number),
                memory_limit, changes_count_limit)

MemoryLimits == {Unlimited} \cup {Limit(n) : n \in 0 .. MaxMemory}
CountLimits == {Unlimited} \cup {Limit(n) : n \in 0 .. MaxCount}

\* storage_updates_since called on the primary
StorageUpdatesSince(sequence_number, memory_limit, changes_count_limit) ==
    /\ updates' = StorageUpdatesSinceOf(wal, sequence_number, memory_limit,
                                        changes_count_limit)
    /\ io' = [op |-> "updates_since", sequence_number |-> sequence_number,
              memory_limit |-> memory_limit,
              changes_count_limit |-> changes_count_limit, failed |-> FALSE,
              result |-> "ok"]
    /\ UNCHANGED <<kv, wal, replica, cursor, polled>>
    /\ UNCHANGED <<store, now, db, last, armed, role_primary, blocked_clients, rx, woken,
                   run, held, adminVars, workerVars>>

\* StorageUpdates::next: the records of a body, read front to back
RECURSIVE Records(_)
Records(data) ==
    IF data = <<>> THEN <<>>
    ELSE IF Head(data) = "P"
         THEN <<PutRecord(data[2], data[3])>> \o Records(SubSeq(data, 4, Len(data)))
         ELSE <<DeleteRecord(data[2])>> \o Records(SubSeq(data, 3, Len(data)))

\* the replica collects the records of a batch in a BatchUpdate
RECURSIVE BatchOfRecords(_, _)
BatchOfRecords(update, recs) ==
    IF recs = <<>> THEN update
    ELSE BatchOfRecords(
            IF Head(recs).op = "put"
            THEN [update EXCEPT !.items_to_put =
                                  Append(@, <<Head(recs).key, Head(recs).value>>)]
            ELSE [update EXCEPT !.keys_to_delete = Append(@, Head(recs).key)],
            Tail(recs))

\* the replica applies a batch with apply_batch
ApplyUpdates(kvf, u) ==
    LET recs == Records(u.serialised_data)
        updates_of == {BatchOfRecords(BatchUpdate(<<>>, <<>>), r) : r \in {recs}}
        write_batches == {WriteBatchOf(update) : update \in updates_of}
    IN  CHOOSE applied \in {EngineWrite(kvf, ops) : ops \in write_batches} : TRUE

\* the replica polls the primary from its cursor, applies what it gets and
\* moves its cursor to the end of the batch
ReplicaPoll(memory_limit, changes_count_limit) ==
    /\ updates' = StorageUpdatesSinceOf(wal, cursor, memory_limit, changes_count_limit)
    /\ replica' = ApplyUpdates(replica, updates')
    /\ cursor' = updates'.end_seq_number
    /\ polled' = polled \o Records(updates'.serialised_data)
    /\ io' = [op |-> "updates_since", sequence_number |-> cursor,
              memory_limit |-> memory_limit,
              changes_count_limit |-> changes_count_limit, failed |-> FALSE,
              result |-> "ok"]
    /\ UNCHANGED <<kv, wal>>
    /\ UNCHANGED <<store, now, db, last, armed, role_primary, blocked_clients, rx, woken,
                   run, held, adminVars, workerVars>>

\* the engine fails while the write batches are iterated: the call returns
\* Err and no StorageUpdates, the replica has nothing to apply and polls from
\* the same cursor again
ReplicaPollFails ==
    /\ io' = [op |-> "updates_since", sequence_number |-> cursor, failed |-> TRUE,
              result |-> "err"]
    /\ UNCHANGED <<kv, wal, replica, cursor, updates, polled>>
    /\ UNCHANGED <<store, now, db, last, armed, role_primary, blocked_clients, rx, woken,
                   run, held, adminVars, workerVars>>

\* the replica gets the batch it has just applied once more
ReplicaReapply ==
    /\ updates.changes_count > 0
    /\ updates.end_seq_number = cursor
    /\ replica' = ApplyUpdates(replica, updates)
    /\ io' = [op |-> "reapply", failed |-> FALSE, result |-> "ok"]
    /\ UNCHANGED <<kv, wal, cursor, updates, polled>>
    /\ UNCHANGED <<store, now, db, last, armed, role_primary, blocked_clients, rx, woken,
                   run, held, adminVars, workerVars>>

(***************************************************************************)
(* The specification: connections issue commands one at a time.            *)
(***************************************************************************)
Init ==
    /\ store = <<>>
    /\ now = 0
    /\ db = [c \in Conns |-> 0]
    /\ last = NoCmd
    /\ armed = NotArmed
    /\ role_primary = TRUE
    /\ blocked_clients = <<>>
    /\ rx = <<>>
    /\ woken = NoWake
    /\ run = [c \in Conns |-> NotRunning]
    /\ held = {}
    /\ replicator_context = TRUE
    /\ repl_file = PrimaryConfig
    /\ replicator_rx = <<>>
    /\ admin = NoAdmin
    /\ pending = NoAdmin
    /\ worker_tx_channels = <<>>
    /\ clients = [id \in ClientIds |-> NotConnected]
    /\ kill = NoKill
    /\ kv = <<>>
    /\ wal = <<>>
    /\ replica = <<>>
    /\ cursor = 0
    /\ updates = FromSeqNumber(0)
    /\ polled = <<>>
    /\ io = NoIo

\* The key space commands on one connection: values of every type are
\* written, counted and deleted.
Next ==
    \/ \E args \in SetPlainArgs(Keys, Vals) : Set("c1", args)
    \/ \E args \in OneKeyArgs(Keys) : Get("c1", args)
    \/ \E args \in LPushArgs(Keys, {ValV}) : LPush("c1", args)
    \/ \E args \in OneKeyArgs(Keys) : LLen("c1", args)
    \/ \E args \in HSetArgs(Keys, Fields, {ValV}) : HSet("c1", args)
    \/ \E args \in HGetArgs(Keys, Fields) : HGet("c1", args)
    \/ \E args \in KeyLists(Keys) : Del("c1", args)
    \/ \E args \in KeyLists(Keys) : Exists("c1", args)
    \/ Flush

Spec == Init /\ [][Next]_vars

\* Expiration on one connection: values are written with and without a time
\* to live, EXPIRE rewrites it and the clock advances.
NextTtl ==
    \/ \E args \in SetPlainArgs({KeyA}, Vals) \cup SetExArgs({KeyA}, {ValV}) : Set("c1", args)
    \/ \E args \in OneKeyArgs({KeyA}) : Get("c1", args)
    \/ \E args \in LPushArgs({KeyA}, {ValV}) : LPush("c1", args)
    \/ \E args \in HSetArgs({KeyA}, {FieldF}, {ValV}) : HSet("c1", args)
    \/ \E args \in OneKeyArgs({KeyA}) : Del("c1", args)
    \/ \E args \in OneKeyArgs({KeyA}) : Ttl("c1", args)
    \/ \E args \in ExpireArgs({KeyA}) : Expire("c1", args)
    \/ Tick
    \/ Flush

SpecTtl == Init /\ [][NextTtl]_vars

\* Two connections that select their databases and write and read one key
\* space each.
NextDb ==
    \/ \E c \in Conns, d \in Dbs : Select(c, d)
    \/ \E c \in Conns, args \in SetPlainArgs({KeyA}, {ValV}) \cup SetExArgs({KeyA}, {ValV}) :
            Set(c, args)
    \/ \E c \in Conns, args \in OneKeyArgs({KeyA}) : Get(c, args)
    \/ \E c \in Conns, args \in OneKeyArgs({KeyA}) : Del(c, args)
    \/ \E c \in Conns, args \in OneKeyArgs({KeyA}) : Exists(c, args)
    \/ \E c \in Conns, args \in OneKeyArgs({KeyA}) : Ttl(c, args)
    \/ \E c \in Conns, args \in ExpirePlainArgs({KeyA}) : Expire(c, args)
    \/ Tick
    \/ Flush

SpecDb == Init /\ [][NextDb]_vars

\* The role of the server changes while one connection writes and reads a key.
NextRole ==
    \/ SetReplica
    \/ SetPrimary
    \/ \E args \in SetPlainArgs({KeyA}, {ValV}) \cup SetExArgs({KeyA}, {ValV}) :
            HandleCommand("c1", "set", args)
    \/ \E args \in LPushArgs({KeyA}, {ValV}) : HandleCommand("c1", "lpush", args)
    \/ \E args \in OneKeyArgs({KeyA}) : HandleCommand("c1", "get", args)
    \/ \E args \in OneKeyArgs({KeyA}) : HandleCommand("c1", "del", args)
    \/ \E args \in KeyLists({KeyA}) : HandleCommand("c1", "exists", args)
    \/ \E args \in OneKeyArgs({KeyA}) : HandleCommand("c1", "ttl", args)
    \/ \E args \in ExpirePlainArgs({KeyA}) : HandleCommand("c1", "expire", args)
    \/ Tick
    \/ Flush

SpecRole == Init /\ [][NextRole]_vars

\* Clients block on keys, time out and resume while writers wake them up.
NextBlocked ==
    \/ \E keys \in BlockKeys : BlockClient(keys)
    \/ \E key \in Keys, n \in 0 .. MaxWake : WakeupClients(key, n)
    \/ \E id \in 1 .. MaxChannels : Receive(id)
    \/ \E id \in 1 .. MaxChannels : Timeout(id)

SpecBlocked == Init /\ [][NextBlocked]_vars

\* the requests of the connections that are served in parallel
ParallelDelArgs == {<<k>> : k \in Keys} \cup {<<k1, k2>> : k1 \in Keys, k2 \in Keys}
ParallelExistsArgs == {<<KeyA>>, <<KeyA, KeyA>>}

\* Two connections on two workers issue generic commands on the same keys.
NextParallel ==
    \/ \E c \in Conns, args \in SetPlainArgs(Keys, {ValV}) : SetLocked(c, args)
    \/ \E c \in Conns, args \in ParallelDelArgs : DelStart(c, args)
    \/ \E c \in Conns : DelLock(c)
    \/ \E c \in Conns : DelDelete(c)
    \/ \E c \in Conns : StorageError(c)
    \/ \E c \in Conns, args \in ParallelExistsArgs : ExistsStart(c, args)
    \/ \E c \in Conns : ExistsRead(c)
    \/ \E c \in Conns, args \in OneKeyArgs({KeyA}) : TtlStart(c, args)
    \/ \E c \in Conns : TtlLock(c)
    \/ \E c \in Conns : TtlRead(c)
    \/ \E c \in Conns, args \in ExpirePlainArgs({KeyA}) : ExpireStart(c, args)
    \/ \E c \in Conns : ExpireLock(c)
    \/ \E c \in Conns : ExpireRead(c)
    \/ \E c \in Conns : ExpireWriteBack(c)
    \/ \E c \in Conns : Finish(c)

SpecParallel == Init /\ [][NextParallel]_vars

\* Two workers block clients on a key and wake them up at the same time.
NextRegistryRace ==
    \/ \E c \in Conns, key \in Keys : BlockClientGet(c, key)
    \/ \E c \in Conns : BlockClientInsert(c)
    \/ \E c \in Conns, key \in Keys, n \in 1 .. MaxWake : WakeupClientsPop(c, key, n)
    \/ \E c \in Conns : WakeupClientsRemove(c)

SpecRegistryRace == Init /\ [][NextRegistryRace]_vars

\* a server is built with or without a replicator, and in the role its
\* replication configuration file names
InitAdmin ==
    /\ store = <<>>
    /\ now = 0
    /\ db = [c \in Conns |-> 0]
    /\ last = NoCmd
    /\ armed = NotArmed
    /\ blocked_clients = <<>>
    /\ rx = <<>>
    /\ woken = NoWake
    /\ run = [c \in Conns |-> NotRunning]
    /\ held = {}
    /\ replicator_context \in BOOLEAN
    /\ \/ role_primary = TRUE /\ repl_file = PrimaryConfig
       \/ role_primary = FALSE /\ repl_file \in {ReplicaConfig(h, p) : h \in Hosts, p \in Ports}
    /\ replicator_rx = <<>>
    /\ admin = NoAdmin
    /\ pending = NoAdmin
    /\ worker_tx_channels = <<>>
    /\ clients = [id \in ClientIds |-> NotConnected]
    /\ kill = NoKill
    /\ kv = <<>>
    /\ wal = <<>>
    /\ replica = <<>>
    /\ cursor = 0
    /\ updates = FromSeqNumber(0)
    /\ polled = <<>>
    /\ io = NoIo

\* REPLICAOF requests change the role while a connection writes and reads.
NextAdmin ==
    \/ \E h \in Hosts, p \in Ports : ConnectToPrimary(h, p)
    \/ SwitchRoleToPrimary
    \/ WriteFile
    \/ SendToReplicator
    \/ SetRole
    \/ AdminOk
    \/ AdminReturn
    \/ ReplicatorReceive
    \/ \E args \in SetPlainArgs({KeyA}, {ValV}) : HandleCommand("c1", "set", args)
    \/ \E args \in OneKeyArgs({KeyA}) : HandleCommand("c1", "get", args)
    \/ Flush

SpecAdmin == InitAdmin /\ [][NextAdmin]_vars

\* Two workers serve REPLICAOF requests at the same time; the messages stay
\* in the channel of the replicator in the order they were sent.
NextRoleRace ==
    \/ \E h \in Hosts, p \in Ports : ConnectToPrimary(h, p)
    \/ SwitchRoleToPrimary
    \/ WriteFile
    \/ SendToReplicator
    \/ SetRole
    \/ AdminOk
    \/ AdminReturn
    \/ OtherWorkerRuns

SpecRoleRace == InitAdmin /\ [][NextRoleRace]_vars

\* Workers register, clients connect and CLIENT KILL is issued on any worker.
NextWorkers ==
    \/ \E w \in Workers : AddWorkerTxChannel(w)
    \/ \E id \in ClientIds, w \in Workers : ClientConnect(id, w)
    \/ \E w \in Workers, id \in ClientIds : TerminateClient(w, id)
    \/ \E w \in Workers : WorkerReceive(w)

SpecWorkers == Init /\ [][NextWorkers]_vars

\* every worker keeps taking the messages of its inbox
SpecWorkersFair ==
    SpecWorkers /\ \A w \in Workers : WF_vars(WorkerReceive(w))

\* The primary is written and its updates are asked for from any sequence
\* number.
StorageBatches ==
    {BatchUpdate(<<KeyA>>, <<<<KeyA, ValV>>>>), BatchUpdate(<<>>, <<<<KeyB, ValW>>>>),
     BatchUpdate(<<KeyB>>, <<>>)}
SeqNumbers == 0 .. (2 * MaxCommits)

NextStorage ==
    \/ \E update \in StorageBatches, ok \in BOOLEAN : ApplyBatch(update, ok)
    \/ \E f \in PutFlags, r \in BOOLEAN, w \in BOOLEAN : StoragePut(KeyA, ValV, f, r, w)
    \/ \E ok \in BOOLEAN : StorageDelete(KeyA, ok)
    \/ \E k \in Keys, ok \in BOOLEAN : StorageGet(k, ok)
    \/ \E s \in SeqNumbers, m \in MemoryLimits, n \in CountLimits :
            StorageUpdatesSince(s, m, n)

SpecStorage == Init /\ [][NextStorage]_vars

\* Two threads put and delete one raw key at the same time.
NextPutRace ==
    \/ \E c \in Conns, v \in {ValV, ValW}, f \in PutFlags : PutRead(c, KeyA, v, f)
    \/ \E c \in Conns : PutWrite(c)
    \/ StorageDelete(KeyA, TRUE)

SpecPutRace == Init /\ [][NextPutRace]_vars

\* The primary commits batches while a replica polls it.
ReplicationBatches ==
    {BatchUpdate(<<>>, <<<<KeyA, ValV>>>>), BatchUpdate(<<KeyA>>, <<>>),
     BatchUpdate(<<KeyA>>, <<<<KeyA, ValW>>>>), BatchUpdate(<<KeyB>>, <<<<KeyA, ValV>>>>),
     BatchUpdate(<<>>, <<<<KeyB, ValW>>>>)}

NextReplication ==
    \/ \E update \in ReplicationBatches, ok \in BOOLEAN : ApplyBatch(update, ok)
    \/ \E m \in MemoryLimits, n \in CountLimits : ReplicaPoll(m, n)
    \/ ReplicaPollFails
    \/ ReplicaReapply

SpecReplication == Init /\ [][NextReplication]_vars

\* The replica keeps polling, with no limit or with the smallest limits: a
\* poll that the engine serves is made again and again.
PollMemoryLimits == {Unlimited, Limit(0)}
PollCountLimits == {Unlimited, Limit(0), Limit(1)}
PollBatches == {BatchUpdate(<<>>, <<<<KeyA, ValV>>>>), BatchUpdate(<<KeyA>>, <<<<KeyA, ValW>>>>)}

ReplicaPolls == \E m \in PollMemoryLimits, n \in PollCountLimits : ReplicaPoll(m, n)

NextReplicationFair ==
    \/ \E update \in PollBatches, ok \in BOOLEAN : ApplyBatch(update, ok)
    \/ ReplicaPolls
    \/ ReplicaPollFails
    \/ ReplicaReapply

SpecReplicationFair == Init /\ [][NextReplicationFair]_vars /\ WF_vars(ReplicaPolls)

(***************************************************************************)
(* Properties.  A step is the handling of one request: the step from an    *)
(* idle state to the state that holds the request and its reply.           *)
(***************************************************************************)
Handles(name) == Idle /\ last'.cmd = name

Range(seq) == {seq[i] : i \in 1 .. Len(seq)}

\* the user key k of database d exists at time t
KeyExists(st, t, d, k) ==
    /\ PrimaryKey(d, k) \in DOMAIN st
    /\ (st[PrimaryKey(d, k)].exp = NoExp \/ st[PrimaryKey(d, k)].exp > t)

\* x time units in whole seconds, rounded up
CeilSeconds(x) ==
    CHOOSE r \in 0 .. x : r * UnitsPerSec >= x /\ (r = 0 \/ (r - 1) * UnitsPerSec < x)

\* the spellings of a two-letter option
Spellings(lo, up) == {<<a, b>> : a \in {lo[1], up[1]}, b \in {lo[2], up[2]}}
OptNX == Spellings(<<"n", "x">>, <<"N", "X">>)
OptXX == Spellings(<<"x", "x">>, <<"X", "X">>)
OptGT == Spellings(<<"g", "t">>, <<"G", "T">>)
OptLT == Spellings(<<"l", "t">>, <<"L", "T">>)
KnownOpts == OptNX \cup OptXX \cup OptGT \cup OptLT

\* C1: DEL k1 ... kn replies the number of distinct listed keys that existed
\* when it was processed; afterwards every listed key is absent: GET replies
\* nil, LLEN replies 0 and a further DEL of it replies 0.
C1_DelCountsDistinctExisting ==
    [][(Handles("del") /\ Len(last'.args) >= 1) =>
        LET d == db[last'.conn]
            args == last'.args
        IN  /\ last'.reply =
                   RInt(Cardinality({k \in Range(args) : KeyExists(store, now, d, k)}))
            /\ \A k \in Range(args) :
                   /\ GetReply(store', now', d, k) = RNil
                   /\ LLenReply(store', now', d, k) = RInt(0)
                   /\ DelLoop(store', now', d, <<k>>, 0).deleted_items = 0]_vars

\* DEL a b a, or DEL b a b, replied 2: the key listed twice was counted once
C1_Witness ==
    /\ last.cmd = "del"
    /\ Len(last.args) = 3
    /\ last.args[1] = last.args[3]
    /\ last.args[1] # last.args[2]
    /\ last.reply = RInt(2)

\* C2: DEL of a key holding a hash removes the primary entry together with
\* every hash-field entry of that key: no field written before the DEL is
\* reachable afterwards, also not through a hash created later under the same
\* user key in the same database.
C2_DelRemovesHashFields ==
    [][(Handles("del") /\ Len(last'.args) >= 1) =>
        LET d == db[last'.conn]
        IN  \A k \in Range(last'.args) :
                QueryKeyType(store, now, d, k) = "hash" =>
                    /\ PrimaryKey(d, k) \notin DOMAIN store'
                    /\ SubKeysOf(store', d, k) = {}
                    /\ \A f \in Fields :
                           \A g \in Fields \ {f} :
                               HGetReply(HashDbPut(store', d, k, g, ValV).st,
                                         now', d, k, f) = RNil]_vars

\* C3: EXISTS k1 ... kn replies the number of argument positions whose key
\* exists, and changes no stored state.
C3_ExistsCountsPositions ==
    [][(Handles("exists") /\ Len(last'.args) >= 1) =>
        LET d == db[last'.conn]
            args == last'.args
        IN  /\ last'.reply =
                   RInt(Cardinality({i \in 1 .. Len(args) :
                                         KeyExists(store, now, d, args[i])}))
            /\ store' = store]_vars

\* EXISTS k1 k2 k1 replied 3
C3_Witness ==
    /\ last.cmd = "exists"
    /\ Len(last.args) = 3
    /\ last.args[1] = last.args[3]
    /\ last.args[1] # last.args[2]
    /\ last.reply = RInt(3)

\* C4: TTL k replies -2 when k is absent, -1 when k exists without an
\* expiration, and otherwise the remaining whole seconds of k's expiration;
\* TTL changes no stored state.
C4_TtlReply ==
    [][(Handles("ttl") /\ Len(last'.args) = 1) =>
        LET d == db[last'.conn]
            k == last'.args[1]
        IN  /\ store' = store
            /\ last'.reply =
                   IF ~KeyExists(store, now, d, k) THEN RInt(-2)
                   ELSE IF store[PrimaryKey(d, k)].exp = NoExp THEN RInt(-1)
                   ELSE RInt(CeilSeconds(store[PrimaryKey(d, k)].exp - now))]_vars

\* TTL replied 1 for a key with less than a whole second left
C4_Witness ==
    /\ last.cmd = "ttl"
    /\ last.reply = RInt(1)
    /\ store[PrimaryKey(db[last.conn], last.args[1])].exp - now < UnitsPerSec

\* the stored value of a key with its expiration masked
Unexpiring(v) == [v EXCEPT !.exp = NoExp]

\* the entries of the store other than the primary entry of (d, k)
Others(st, d, k) == [r \in (DOMAIN st) \ {PrimaryKey(d, k)} |-> st[r]]

\* EXPIRE with a seconds argument that parses and no or a known option
WellFormedExpire(args) ==
    /\ Len(args) >= 2
    /\ ParseU64(args[2]) # ParseFail
    /\ Len(args) = 3 => args[3] \in KnownOpts

\* the condition of the option of EXPIRE args on key k of database d
OptionHolds(st, t, d, args) ==
    LET k == args[1]
        n == ParseU64(args[2])
        exp == st[PrimaryKey(d, k)].exp
    IN  \/ Len(args) = 2
        \/ Len(args) = 3 /\ args[3] \in OptNX /\ exp = NoExp
        \/ Len(args) = 3 /\ args[3] \in OptXX /\ exp # NoExp
        \/ Len(args) = 3 /\ args[3] \in OptGT /\ exp # NoExp /\ n > CeilSeconds(exp - t)
        \/ Len(args) = 3 /\ args[3] \in OptLT /\ (exp = NoExp \/ n < CeilSeconds(exp - t))

\* C5: EXPIRE k n [NX|XX|GT|LT] (option matched case-insensitively) sets k's
\* time to live to n seconds and replies 1 exactly when k exists and the
\* option's condition holds; in every other case it replies 0, leaves k's
\* expiration unchanged and creates no entry for an absent k.  For GT and LT a
\* key without expiration has an unbounded time to live.
C5_ExpireOptions ==
    [][(Handles("expire") /\ WellFormedExpire(last'.args)) =>
        LET d == db[last'.conn]
            args == last'.args
            k == args[1]
        IN  IF KeyExists(store, now, d, k) /\ OptionHolds(store, now, d, args)
            THEN /\ last'.reply = RInt(1)
                 /\ PrimaryKey(d, k) \in DOMAIN store'
                 /\ store'[PrimaryKey(d, k)].exp = now + ParseU64(args[2]) * UnitsPerSec
                 /\ Others(store', d, k) = Others(store, d, k)
            ELSE /\ last'.reply = RInt(0)
                 /\ store' = store]_vars

\* EXPIRE with option GT in mixed case replied 1
C5_Witness ==
    /\ last.cmd = "expire"
    /\ Len(last.args) = 3
    /\ last.args[3] = <<"G", "t">>
    /\ last.reply = RInt(1)

\* C6: EXPIRE k n GT on an existing key k that has no TTL replies 0 for every
\* n and leaves k without a TTL.
C6_ExpireGtWithoutTtl ==
    [][(/\ Handles("expire")
        /\ WellFormedExpire(last'.args)
        /\ Len(last'.args) = 3
        /\ last'.args[3] \in OptGT
        /\ KeyExists(store, now, db[last'.conn], last'.args[1])
        /\ store[PrimaryKey(db[last'.conn], last'.args[1])].exp = NoExp) =>
            /\ last'.reply = RInt(0)
            /\ store'[PrimaryKey(db[last'.conn], last'.args[1])].exp = NoExp]_vars

\* EXPIRE k 2 GT replied 0 on a key that exists without expiration
C6_Witness ==
    /\ last.cmd = "expire"
    /\ Len(last.args) = 3
    /\ last.args[3] \in OptGT
    /\ ParseU64(last.args[2]) = MaxSeconds
    /\ last.reply = RInt(0)
    /\ KeyExists(store, now, db[last.conn], last.args[1])
    /\ store[PrimaryKey(db[last.conn], last.args[1])].exp = NoExp

\* C7: EXPIRE k n <tok> on an existing key with an option token other than
\* NX, XX, GT, LT replies the error 'ERR Unsupported option <tok>' and changes
\* nothing; a seconds argument that is no unsigned integer yields the
\* 'value is not an integer or out of range' error with no state change.
C7_ExpireErrors ==
    [][Handles("expire") =>
        LET d == db[last'.conn]
            args == last'.args
        IN  /\ (Len(args) >= 2 /\ ParseU64(args[2]) = ParseFail) =>
                   /\ last'.reply = RErr(ErrNotInt)
                   /\ store' = store
            /\ (/\ Len(args) = 3
                /\ ParseU64(args[2]) # ParseFail
                /\ KeyExists(store, now, d, args[1])
                /\ args[3] \notin KnownOpts) =>
                   /\ last'.reply = RErrArg(ErrUnsupportedOption, args[3])
                   /\ store' = store]_vars

\* C8 as stated: for every key and every outcome of EXPIRE, the value type of
\* the key and the reply of GET are the same before and after the EXPIRE.
C8_ExpireKeepsGetReply ==
    [][Handles("expire") =>
        \A k \in Keys :
            LET d == db[last'.conn]
            IN  /\ QueryKeyType(store', now', d, k) = QueryKeyType(store, now, d, k)
                /\ GetReply(store', now', d, k) = GetReply(store, now, d, k)]_vars

\* C8, amended: EXPIRE changes nothing of the store but the expiration of the
\* primary entry of its key, whose type and payload stay as stored; the type
\* and the reply of GET are those of before the EXPIRE unless the EXPIRE
\* replied 1 with 0 seconds, which expires the key at once.
C8_ExpireKeepsValue ==
    [][(Handles("expire") /\ Len(last'.args) >= 2) =>
        LET d == db[last'.conn]
            k == last'.args[1]
            p == PrimaryKey(d, k)
        IN  /\ Others(store', d, k) = Others(store, d, k)
            /\ (p \in DOMAIN store') = (p \in DOMAIN store)
            /\ p \in DOMAIN store => Unexpiring(store'[p]) = Unexpiring(store[p])
            /\ ~(last'.reply = RInt(1) /\ ParseU64(last'.args[2]) = 0) =>
                   \A k2 \in Keys :
                       /\ QueryKeyType(store', now', d, k2) = QueryKeyType(store, now, d, k2)
                       /\ GetReply(store', now', d, k2) = GetReply(store, now, d, k2)]_vars

\* EXPIRE replied 1 on a string value that carries its payload
C8_Witness ==
    /\ last.cmd = "expire"
    /\ last.reply = RInt(1)
    /\ ParseU64(last.args[2]) >= 1
    /\ GetReply(store, now, db[last.conn], last.args[1]) = RBulk(ValW)

\* C9: after EXPIRE k n with n >= 1 has replied 1, every TTL k observed before
\* n seconds have elapsed, with no intervening write to k, replies a value t
\* with 0 < t <= n.
C9_TtlWithinExpire ==
    (/\ last.cmd = "ttl"
     /\ Len(last.args) = 1
     /\ armed.on
     /\ armed.n >= 1
     /\ armed.d = db[last.conn]
     /\ armed.k = last.args[1]
     /\ now < armed.at + armed.n * UnitsPerSec) =>
        /\ last.reply.t = "int"
        /\ 0 < last.reply.n
        /\ last.reply.n <= armed.n

\* TTL replied 1 within the last second of an EXPIRE of 2 seconds
C9_Witness ==
    /\ last.cmd = "ttl"
    /\ armed.on
    /\ armed.n = 2
    /\ armed.d = db[last.conn]
    /\ armed.k = last.args[1]
    /\ now = armed.at + 2 * UnitsPerSec - 1
    /\ last.reply = RInt(1)

\* C10: for databases d1 # d2 and any key k, SET, DEL and EXPIRE of k issued
\* on a connection selected to d1 never change the replies of GET, EXISTS or
\* TTL for k on a connection selected to d2.
C10_DatabasesIsolated ==
    [][(Handles("set") \/ Handles("del") \/ Handles("expire")) =>
        \A d2 \in Dbs \ {db[last'.conn]} :
            \A k \in Keys :
                /\ GetReply(store', now', d2, k) = GetReply(store, now, d2, k)
                /\ ExistsLoop(store', now', d2, <<k>>, 0) = ExistsLoop(store, now, d2, <<k>>, 0)
                /\ TtlReply(store', now', d2, k) = TtlReply(store, now, d2, k)]_vars

\* DEL replied 1 in one database while the other database holds the same key
C10_Witness ==
    /\ last.cmd = "del"
    /\ last.reply = RInt(1)
    /\ \E d2 \in Dbs \ {db[last.conn]} : KeyExists(store, now, d2, last.args[1])

\* a request of the given number of tokens satisfies the registered arity
ArityHolds(arity, tokens) ==
    IF arity > 0 THEN tokens = arity ELSE tokens >= -arity

C12_ReplicaRefusesWrites ==
    [][\A name \in CommandNames :
         (Handles(name) /\ ~role_primary) =>
            LET c == last'.conn
                args == last'.args
            IN  /\ name \in WriteCommands =>
                       /\ last'.reply = RErr(ErrReadOnly)
                       /\ store' = store
                /\ name = "get" => last'.reply = GetReply(store, now, db[c], args[1])
                /\ name = "ttl" => last'.reply = TtlReply(store, now, db[c], args[1])
                /\ (name = "exists" /\ Len(args) >= 1) =>
                       last'.reply = RInt(ExistsLoop(store, now, db[c], args, 0))
                /\ name \notin WriteCommands => store' = store]_vars

\* DEL of an existing key was refused on a replica
C12_Witness ==
    /\ last.cmd = "del"
    /\ ~role_primary
    /\ last.reply = RErr(ErrReadOnly)
    /\ KeyExists(store, now, db[last.conn], last.args[1])

\* the queue of senders of a key, empty when the key has no entry
QueueOf(bc, key) == IF key \in DOMAIN bc THEN bc[key] ELSE <<>>

\* the number of times a channel occurs in a sequence of channels
RECURSIVE Occurrences(_, _)
Occurrences(seq, id) ==
    IF seq = <<>> THEN 0
    ELSE (IF Head(seq) = id THEN 1 ELSE 0) + Occurrences(Tail(seq), id)

\* the number of senders with an open receiver among the first m of a queue
RECURSIVE OpenAmong(_, _, _)
OpenAmong(queue, r, m) ==
    IF m = 0 THEN 0
    ELSE (IF IsOpen(r, queue[m]) THEN 1 ELSE 0) + OpenAmong(queue, r, m - 1)

\* C13: wakeup_clients(key, n) signals the waiters blocked on key in the
\* order of their block_client calls: a waiter is signalled only after every
\* live waiter registered earlier on that key has been signalled, and at most
\* n waiters receive a signal from one call.
C13_WakeupIsFifo ==
    [][\A key \in Keys, n \in 0 .. MaxWake :
         WakeupClients(key, n) =>
            LET queue == QueueOf(blocked_clients, key)
                sent == woken'.sent
            IN  /\ Len(sent) <= n
                /\ \A id \in 1 .. Len(rx) :
                       rx'[id].signals = rx[id].signals + Occurrences(sent, id)
                /\ \A j \in 1 .. Len(sent) :
                       \A id \in Range(queue) :
                           (IsOpen(rx, id) /\ id < sent[j]) =>
                               \E m \in 1 .. (j - 1) : sent[m] = id]_vars

\* a call with budget 1 signalled the older of two live waiters of a key
C13_Witness ==
    /\ woken.n = 1
    /\ woken.sent = <<1>>
    /\ 2 \in Range(QueueOf(blocked_clients, woken.key))
    /\ IsOpen(rx, 2)
    /\ rx[2].signals = 0

\* C14: a sender whose receiver is closed is discarded without using up the
\* budget: whenever n >= 1 and the queue of key holds a live waiter, behind
\* any number of closed ones, a live waiter is signalled by the call.
C14_ClosedSendersAreFree ==
    [][\A key \in Keys, n \in 1 .. MaxWake :
         (/\ WakeupClients(key, n)
          /\ \E id \in Range(QueueOf(blocked_clients, key)) : IsOpen(rx, id)) =>
            \E id \in Range(QueueOf(blocked_clients, key)) :
                /\ IsOpen(rx, id)
                /\ rx'[id].signals > rx[id].signals]_vars

\* a call with budget 1 dropped a closed sender and signalled the waiter behind it
C14_Witness ==
    /\ woken.n = 1
    /\ woken.failed = <<1>>
    /\ woken.sent = <<2>>
    /\ rx[2].signals = 1

\* the number of senders of a channel that the queues of the registry hold
RECURSIVE QueuedSenders(_, _, _)
QueuedSenders(bc, ks, id) ==
    IF ks = {} THEN 0
    ELSE LET key == CHOOSE k \in ks : TRUE
         IN  Occurrences(bc[key], id) + QueuedSenders(bc, ks \ {key}, id)

\* C15: block_client(keys) puts the sender of the waiter on the queue of every
\* key of keys, where it stays while the receiver is open and unsignalled, and
\* a call wakeup_clients(key, n) on one of the keys signals the waiter when n
\* reaches its place among the live waiters of that queue (a lone waiter:
\* whenever n >= 1).
C15_BlockedWaiterIsSignalled ==
    [][/\ \A keys \in BlockKeys :
            BlockClient(keys) =>
                \A i \in 1 .. Len(keys) :
                    Len(rx') \in Range(QueueOf(blocked_clients', keys[i]))
       /\ \A id \in 1 .. Len(rx') :
            (IsOpen(rx', id) /\ rx'[id].signals = 0) =>
                QueuedSenders(blocked_clients', DOMAIN blocked_clients', id) = rx'[id].cap
       /\ \A key \in Keys, n \in 0 .. MaxWake :
            WakeupClients(key, n) =>
                LET queue == QueueOf(blocked_clients, key)
                IN  \A m \in 1 .. Len(queue) :
                        (IsOpen(rx, queue[m]) /\ OpenAmong(queue, rx, m) <= n) =>
                            rx'[queue[m]].signals > rx[queue[m]].signals]_vars

\* a waiter blocked on two keys, second in the queue of the key that is
\* written, was signalled
C15_Witness ==
    /\ woken.key = KeyB
    /\ woken.sent = <<1, 2>>
    /\ Len(rx) >= 2
    /\ rx[2].cap = 2
    /\ rx[2].signals = 1
    /\ IsOpen(rx, 2)

\* C16: when a blocked waiter times out it is removed from the queue of every
\* key it was registered on: no queue of the registry holds the sender of a
\* waiter that timed out.
C16_TimedOutWaiterLeavesQueues ==
    \A id \in 1 .. Len(rx) :
        rx[id].state = "timedout" =>
            \A key \in DOMAIN blocked_clients : id \notin Range(blocked_clients[key])

\* C17: EXISTS k k issued on an existing key k replies 2 even when a DEL k
\* from another connection runs concurrently with it.
C17_ExistsTwiceDespiteDel ==
    \A c \in Conns :
        (/\ run[c].at = "done"
         /\ run[c].cmd = "exists"
         /\ run[c].args = <<KeyA, KeyA>>
         /\ run[c].existed
         /\ \E c2 \in Conns \ {c} : run[c2].cmd = "del") =>
            run[c].reply = RInt(2)

\* C18: a generic command reads or writes the entry of a user key only while
\* it holds the lock of that key: a shared lock for TTL and EXISTS, an
\* exclusive lock for DEL and EXPIRE.
C18_AccessUnderLock ==
    \A c \in Conns :
        /\ run[c].at = "del_key" =>
               KeyLock(c, db[c], run[c].args[run[c].i], "exclusive") \in held
        /\ run[c].at \in {"expire_read", "expire_write"} =>
               KeyLock(c, db[c], run[c].args[1], "exclusive") \in held
        /\ run[c].at = "ttl_read" =>
               KeyLock(c, db[c], run[c].args[1], "shared") \in held
        /\ run[c].at = "exists_read" =>
               KeyLock(c, db[c], run[c].args[run[c].i], "shared") \in held

\* the key and the mode of the lock a handler is about to ask for
WantedKey(c) == IF run[c].at = "del_lock" THEN run[c].args[run[c].i] ELSE run[c].args[1]
WantedMode(c) == IF run[c].at = "ttl_lock" THEN "shared" ELSE "exclusive"

\* the handler of c is at a lock that it cannot get now
WaitsForLock(c) ==
    /\ run[c].at \in {"del_lock", "ttl_lock", "expire_lock"}
    /\ ~CanLock(held, c, db[c], WantedKey(c), WantedMode(c))

\* C19: key locking never deadlocks: a connection that waits for a key lock
\* holds no other lock, and the lock it waits for is held by a connection
\* that does not wait, so that every command completes, also DEL a b against
\* DEL b a.
C19_NoDeadlock ==
    \A c \in Conns :
        WaitsForLock(c) =>
            /\ \A l \in held : l.c # c
            /\ \E l \in held :
                   /\ l.d = db[c]
                   /\ l.k = WantedKey(c)
                   /\ Running(l.c)
                   /\ ~WaitsForLock(l.c)

\* DEL a b waits for the lock of a key that DEL b a holds
C19_Witness ==
    /\ run["c1"].cmd = "del"
    /\ run["c2"].cmd = "del"
    /\ run["c1"].args = <<KeyA, KeyB>>
    /\ run["c2"].args = <<KeyB, KeyA>>
    /\ WaitsForLock("c1")
    /\ run["c1"].i = 2

\* C20: the read of the expiration by EXPIRE and its write-back happen under
\* one exclusive lock of the key: from the lock to the write-back no step of
\* another connection changes the entry of the key, the write-back finds the
\* expiration that was read and rewrites nothing but the expiration, and it
\* never makes an entry that was removed.
C20_ExpireIsAtomic ==
    [][\A c \in Conns :
         run[c].at \in {"expire_read", "expire_write"} =>
            LET p == PrimaryKey(db[c], run[c].args[1])
            IN  /\ run'[c] = run[c] =>
                       /\ (p \in DOMAIN store') = (p \in DOMAIN store)
                       /\ p \in DOMAIN store => store'[p] = store[p]
                /\ run[c].at = "expire_write" =>
                       /\ p \in DOMAIN store
                       /\ store[p].exp = run[c].expiration
                /\ (run[c].at = "expire_write" /\ run'[c].at = "done") =>
                       /\ DOMAIN store' = DOMAIN store
                       /\ Unexpiring(store'[p]) = Unexpiring(store[p])]_vars

\* a DEL of the key waits while EXPIRE is between its read and its write-back
C20_Witness ==
    /\ run["c1"].at = "expire_write"
    /\ run["c2"].at = "del_lock"
    /\ run["c2"].args[run["c2"].i] = KeyA
    /\ WaitsForLock("c2")

\* C21: connect_to_primary on a server with a replicator persists the
\* replication configuration (Replica, host, port), then sends
\* ConnectToPrimary to the replicator, then stores the role flag, in this
\* order; when it returns Ok the server is a replica and the persisted
\* configuration is (Replica, host, port).
C21_ConnectToPrimaryOrder ==
    (admin.op = "connect" /\ replicator_context) =>
        /\ admin.trace = SubSeq(<<"write_file", "send", "set_replica">>, 1, Len(admin.trace))
        /\ Len(admin.trace) >= 1 => repl_file = ReplicaConfig(admin.ip, admin.port)
        /\ Len(admin.trace) < 3 => role_primary = admin.was_primary
        /\ admin.result = "ok" =>
              /\ Len(admin.trace) = 3
              /\ IsReplica
              /\ repl_file = ReplicaConfig(admin.ip, admin.port)

\* a primary was turned into a replica of h2:7001 and the message reached
\* the replicator
C21_Witness ==
    /\ admin.op = "connect"
    /\ replicator_context
    /\ admin.result = "ok"
    /\ admin.was_primary
    /\ IsReplica
    /\ repl_file = ReplicaConfig("h2", 7001)
    /\ replicator_rx # <<>>
    /\ replicator_rx[Len(replicator_rx)] = "ConnectToPrimary"

\* C22: whenever switch_role_to_primary returns Ok, whatever the role was,
\* the server is a primary afterwards.
C22_SwitchPromotes ==
    (admin.op = "switch" /\ admin.result = "ok") => IsPrimary

RECURSIVE FlattenOps(_)
FlattenOps(commits) ==
    IF commits = <<>> THEN <<>> ELSE Head(commits).ops \o FlattenOps(Tail(commits))

\* the commits after sequence number s
CommitsAfter(w, s) == SelectSeq(w, LAMBDA b : b.seq > s)
\* the commits up to sequence number s
CommitsUpTo(w, s) == SelectSeq(w, LAMBDA b : b.seq <= s)

\* C24: with N commits after sequence s and a changes_count_limit L <= N,
\* storage_updates_since(s, None, L) returns changes_count = L and a body
\* holding exactly the records of the first L commits after s, in commit
\* order and in the order of each commit's own records.
C24_FirstCommitsInOrder ==
    [][\A s \in SeqNumbers, n \in CountLimits :
          (StorageUpdatesSince(s, Unlimited, n) /\ n.some
             /\ n.value <= Len(CommitsAfter(wal, s))) =>
              /\ updates'.changes_count = n.value
              /\ Records(updates'.serialised_data) =
                     FlattenOps(SubSeq(CommitsAfter(wal, s), 1, n.value))]_vars

\* C25: successive polls that each start from the end_seq_number of the
\* previous result partition the commit stream: the records returned so far
\* are exactly the records of the commits up to the cursor, each once and in
\* commit order, and a poll moves the cursor over the commits it returned
\* only.
C25_PollsPartitionCommits ==
    /\ polled = FlattenOps(CommitsUpTo(wal, cursor))
    /\ cursor = 0 \/ \E i \in 1 .. Len(wal) : wal[i].seq = cursor

\* two commits were returned by two polls, one each
C25_Witness ==
    /\ Len(wal) = 2
    /\ cursor = wal[2].seq
    /\ updates.start_seq_number = wal[1].seq
    /\ updates.changes_count = 1
    /\ polled = wal[1].ops \o wal[2].ops

\* C26: the body storage_updates_since returns never exceeds memory_limit
\* bytes and holds at most changes_count_limit put and delete records.
C26_CapsAreKept ==
    [][\A s \in SeqNumbers, m \in MemoryLimits, n \in CountLimits :
          StorageUpdatesSince(s, m, n) =>
              /\ m.some => BodyLen(updates') <= m.value
              /\ n.some => Len(Records(updates'.serialised_data)) <= n.value]_vars

\* C27: a replica that started empty and has polled every commit of the
\* primary holds exactly the keys of the primary, each with an equal value.
C27_ReplicaEqualsPrimary ==
    CommitsAfter(wal, cursor) = <<>> => replica = kv

C29_EngineFailureIsAnError ==
    io.failed => io.result = "err"

\* C30: after wakeup_clients(key, n) the registry has no entry for key when
\* the call emptied the queue of key, else the entry holds the waiters that
\* were not popped, in their order; the entries of the other keys are
\* unchanged, and a call for a key without entry changes nothing.
C30_WakeupFrame ==
    [][\A key \in Keys, n \in 0 .. MaxWake :
         WakeupClients(key, n) =>
            LET queue == QueueOf(blocked_clients, key)
                popped == Len(woken'.sent) + Len(woken'.failed)
            IN  /\ key \notin DOMAIN blocked_clients =>
                       blocked_clients' = blocked_clients /\ rx' = rx
                /\ key \in DOMAIN blocked_clients =>
                       /\ popped <= Len(queue)
                       /\ IF popped = Len(queue)
                          THEN key \notin DOMAIN blocked_clients'
                          ELSE /\ key \in DOMAIN blocked_clients'
                               /\ blocked_clients'[key] =
                                      SubSeq(queue, popped + 1, Len(queue))
                /\ \A k \in Keys \ {key} :
                       /\ k \in DOMAIN blocked_clients' <=> k \in DOMAIN blocked_clients
                       /\ QueueOf(blocked_clients', k) = QueueOf(blocked_clients, k)]_vars

\* a call emptied the queue of its key and removed the entry while another
\* key kept its waiters
C30_Witness ==
    /\ woken.sent # <<>>
    /\ woken.key \in Keys
    /\ woken.key \notin DOMAIN blocked_clients
    /\ DOMAIN blocked_clients # {}

\* C31: the signals ever sent on the channel of a waiter are at most as many
\* as the keys it blocked on, which is the capacity its channel was made with:
\* a send of wakeup_clients never finds the channel full.
C31_SignalsWithinCapacity ==
    \A id \in 1 .. Len(rx) : rx[id].signals <= rx[id].cap

\* a waiter on two keys was signalled once for each of them and its channel is
\* filled to its capacity
C31_Witness ==
    \E id \in 1 .. Len(rx) : rx[id].cap = 2 /\ rx[id].signals = 2

\* the key locks connection c holds
LocksOf(c) == {l \in held : l.c = c}

\* C32: when DEL, TTL or EXPIRE has returned, by a reply, an early reply or
\* an error of the storage, its connection holds no key lock; a running
\* command holds at most one lock, and DEL holds none when it asks for the
\* lock of its next key.
C32_NoLockAfterReturn ==
    \A c \in Conns :
        /\ ~Running(c) => LocksOf(c) = {}
        /\ Cardinality(LocksOf(c)) <= 1
        /\ run[c].at = "del_lock" => LocksOf(c) = {}

\* a DEL of two keys returned the error of the storage at its second key
\* while the other connection holds a lock
C32_Witness ==
    \E c \in Conns :
        /\ run[c].at = "done"
        /\ run[c].cmd = "del"
        /\ run[c].reply = SableError
        /\ run[c].i = 2
        /\ \E l \in held : l.c # c

\* the positions at which a handler asks LockManager for the lock of a key
LockRequests == {"del_lock", "ttl_lock", "expire_lock"}

\* the user keys of the command connection c runs
CommandKeys(c) ==
    IF run[c].cmd \in {"del", "exists"}
    THEN {run[c].args[i] : i \in 1 .. Len(run[c].args)}
    ELSE {run[c].args[1]}

\* C33: a handler runs with the locks of all the keys of its command held
\* for its connection from before its first step, and it never asks for the
\* lock of a key itself.
C33_HandlersNeverLock ==
    \A c \in Conns :
        Running(c) =>
            /\ \A k \in CommandKeys(c) :
                   \E l \in held : l.c = c /\ l.d = db[c] /\ l.k = k
            /\ run[c].at \notin LockRequests

\* C40: DEL handles its keys one at a time in the order of its arguments and
\* is not rolled back: a step of its loop removes the key at its position and
\* touches the entries of no other key, the next step is for the next
\* position, and an error of the storage at a position ends the command with
\* the error and no integer reply, the store left as the step found it, so
\* that the keys before the position stay deleted and those after it stay.
C40_DelInOrderNoRollback ==
    [][\A c \in Conns :
         /\ DelDelete(c) =>
                LET k == run[c].args[run[c].i]
                IN  /\ DOMAIN store' \subseteq DOMAIN store
                    /\ \A r \in DOMAIN store :
                           (r.db # db[c] \/ r.uk # k) =>
                               r \in DOMAIN store' /\ store'[r] = store[r]
                    /\ ~GenericDbContains(store', now, db[c], k)
                    /\ run'[c].at = "del_lock" => run'[c].i = run[c].i + 1
                    /\ run'[c].at = "done" =>
                           run[c].i = Len(run[c].args) /\ run'[c].reply.t = "int"
         /\ (StorageError(c) /\ run[c].cmd = "del") =>
                /\ store' = store
                /\ run'[c].at = "done"
                /\ run'[c].reply = SableError
                /\ run'[c].i = run[c].i
                /\ run'[c].deleted_items = run[c].deleted_items]_vars

\* DEL a b deleted a, failed at b and returned the error: a is gone and b is
\* still there
C40_Witness ==
    \E c \in Conns :
        /\ run[c].at = "done"
        /\ run[c].cmd = "del"
        /\ run[c].args = <<KeyA, KeyB>>
        /\ run[c].reply = SableError
        /\ run[c].i = 2
        /\ run[c].deleted_items = 1
        /\ ~GenericDbContains(store, now, db[c], KeyA)
        /\ GenericDbContains(store, now, db[c], KeyB)

\* the keys a batch deletes and the keys it puts
DeletedKeys(update) == {update.keys_to_delete[i] : i \in 1 .. Len(update.keys_to_delete)}
PutKeys(update) == {update.items_to_put[i][1] : i \in 1 .. Len(update.items_to_put)}

\* the value the batch puts last for key k
LastPut(update, k) ==
    LET at == {i \in 1 .. Len(update.items_to_put) : update.items_to_put[i][1] = k}
        last_at == CHOOSE i \in at : \A j \in at : j <= i
    IN  update.items_to_put[last_at][2]

\* C34: apply_batch is one commit with the deletes of the batch before its
\* puts: after a successful call every key the batch puts holds the value put
\* (also a key that the batch deletes too), every other key it deletes is
\* absent, the other keys are as before, and the commit stream has grown by
\* exactly one commit, which storage_updates_since reports as one change with
\* every record of the batch; after a failed call nothing has changed and
\* the call returned the error.
C34_ApplyBatchIsOneCommit ==
    [][io'.op = "apply_batch" =>
       \A update \in ReplicationBatches, ok \in BOOLEAN :
         ApplyBatch(update, ok) =>
            IF ok
            THEN /\ io'.result = "ok"
                 /\ \A k \in PutKeys(update) :
                        k \in DOMAIN kv' /\ kv'[k] = LastPut(update, k)
                 /\ \A k \in DeletedKeys(update) \ PutKeys(update) : k \notin DOMAIN kv'
                 /\ \A k \in Keys \ (DeletedKeys(update) \cup PutKeys(update)) :
                        /\ (k \in DOMAIN kv') = (k \in DOMAIN kv)
                        /\ k \in DOMAIN kv => kv'[k] = kv[k]
                 /\ Len(wal') = Len(wal) + 1
                 /\ SubSeq(wal', 1, Len(wal)) = wal
                 /\ LET u == StorageUpdatesSinceOf(wal', LatestSequenceNumber(wal),
                                                   Unlimited, Unlimited)
                    IN  /\ u.changes_count = 1
                        /\ Records(u.serialised_data) = WriteBatchOf(update)
                        /\ Len(Records(u.serialised_data))
                               = Len(update.keys_to_delete) + Len(update.items_to_put)
            ELSE /\ io'.result = "err"
                 /\ kv' = kv
                 /\ wal' = wal]_vars

\* a batch that deletes and puts one key was applied to a store that held
\* the key: the key is present with the value put
C34_Witness ==
    /\ io.op = "apply_batch"
    /\ io.result = "ok"
    /\ Len(wal) = 2
    /\ wal[1].ops = <<PutRecord(KeyA, ValV)>>
    /\ wal[2].ops = <<DeleteRecord(KeyA), PutRecord(KeyA, ValW)>>
    /\ KeyA \in DOMAIN kv
    /\ kv[KeyA] = ValW

\* C37: whenever no role change is under way, the role in the persisted
\* replication configuration is the role the flag reports, whichever calls
\* were made and at whichever step each of them failed.
C37_PersistedRoleIsRoleFlag ==
    AdminIdle => ((repl_file.role = "Primary") <=> role_primary)

\* the role the last message sent to the replicator asks for
LastRoleMessage == replicator_rx[Len(replicator_rx)]

\* C35: role changes are serialised: once the calls of both workers have
\* returned, the role flag is the role of the last message that was sent to
\* the replicator, however the steps of the two calls were interleaved.
C35_RoleIsLastMessage ==
    (AdminIdle /\ pending = NoAdmin /\ replicator_rx # <<>>) =>
        (role_primary <=> (LastRoleMessage = "PrimaryMode"))

\* the sender of channel id is in a queue that a worker has made and not yet
\* inserted
BeingInserted(id) ==
    \E c \in Conns : run[c].at = "bc_insert" /\ id \in Range(run[c].channel_queue)

\* C36: no registration is lost when workers call block_client and
\* wakeup_clients at the same time: a sender that block_client has pushed and
\* that no wakeup_clients has popped and signalled is in a queue of the
\* registry.
C36_NoRegistrationLost ==
    \A id \in 1 .. Len(rx) :
        (rx[id].signals = 0 /\ ~BeingInserted(id)) =>
            \E key \in DOMAIN blocked_clients : id \in Range(blocked_clients[key])

\* C39: a put with PutIfNotExists writes only a raw key that has no value at
\* the time of the write, and a put with PutIfExists only a raw key that has
\* one, also when two threads put the same raw key at the same time: the
\* value one PutIfNotExists stored is not overwritten by the other.
C39_ConditionalPutsHold ==
    [][\A c \in Conns :
         PutWrite(c) =>
            /\ run[c].put_flags = "PutIfNotExists" => run[c].key \notin DOMAIN kv
            /\ run[c].put_flags = "PutIfExists" => run[c].key \in DOMAIN kv]_vars

\* the result of storage_updates_since holds exactly the first j commits
\* after the sequence number it was asked for, each with all its records
WholeCommits(u, after, j) ==
    /\ u.changes_count = j
    /\ u.end_seq_number = after[j].seq
    /\ Records(u.serialised_data) = FlattenOps(SubSeq(after, 1, j))

\* the replica has received the first i commits of the primary
ReceivedCommit(i) ==
    /\ Len(wal) >= i
    /\ cursor >= wal[i].seq
    /\ Len(polled) >= Len(FlattenOps(SubSeq(wal, 1, i)))
    /\ SubSeq(polled, 1, Len(FlattenOps(SubSeq(wal, 1, i)))) = FlattenOps(SubSeq(wal, 1, i))

====
